---- MODULE Spec2Model ----
(***************************************************************************)
(* Model of the autotalk capture pipeline (src/src/audio.rs) and of the    *)
(* streaming transcription worker (src/src/transcriber.rs, real_whisper    *)
(* build).                                                                 *)
(*                                                                         *)
(* Samples are identified by their position in the stream the hardware     *)
(* delivered (0, 1, 2, ...).  A Vec<f32> is kept run-length encoded: a     *)
(* sequence of runs [from, n, ch], a run standing for n consecutive        *)
(* elements, the k-th of which is the mean of the ch raw samples           *)
(* from + k*ch .. from + k*ch + ch - 1 (ch = 1: the raw sample itself).    *)
(* Runs are kept canonical (no empty run, adjacent runs merged), so that   *)
(* equality of encodings is equality of the vectors.                       *)
(*                                                                         *)
(* Time is counted in milliseconds; a thread keeps the time it has waited   *)
(* in its current poll and the time since its last pass.                   *)
(***************************************************************************)
EXTENDS Integers, Sequences, FiniteSets, TLC

\* ------------------------------------------------------------------ bounds
MaxCallbacks == 3
MaxConfigs == 2
MaxChannels == 2
MaxThreads == 2
MaxFrames == 2
MaxRequest == 2
MaxBuffered == 3

\* ------------------------------------------------------- program constants
SamplesPerSecond == 16000
RetainSize == 8000
PollTimeout == 100
MinInterval == 500

\* Option<T>: None is the empty sequence, Some(x) the sequence of x alone;
\* an Option of a device index, channel or thread is 0 for None
None == <<>>
Some(x) == <<x>>

\* ------------------------------------------------------------ run encoding
Run(from, n, ch) == [from |-> from, n |-> n, ch |-> ch]

RunEnd(r) == r.from + r.n * r.ch

RECURSIVE RLen(_)
RLen(b) == IF b = <<>> THEN 0 ELSE Head(b).n + RLen(Tail(b))

Front(s) == SubSeq(s, 1, Len(s) - 1)
Last(s) == s[Len(s)]

\* Vec::extend_from_slice
Extend(a, b) ==
    IF a = <<>> THEN b
    ELSE IF b = <<>> THEN a
    ELSE IF Last(a).ch = Head(b).ch /\ RunEnd(Last(a)) = Head(b).from
         THEN Front(a) \o <<Run(Last(a).from, Last(a).n + Head(b).n, Last(a).ch)>> \o Tail(b)
         ELSE a \o b

\* the first k elements: what Vec::drain(0..k) yields, and &v[..k]
RECURSIVE Take(_, _)
Take(b, k) ==
    IF k <= 0 \/ b = <<>> THEN <<>>
    ELSE IF Head(b).n <= k THEN <<Head(b)>> \o Take(Tail(b), k - Head(b).n)
    ELSE <<Run(Head(b).from, k, Head(b).ch)>>

\* all but the first k elements: what Vec::drain(0..k) leaves, and &v[k..]
RECURSIVE Drop(_, _)
Drop(b, k) ==
    IF k <= 0 \/ b = <<>> THEN b
    ELSE IF Head(b).n <= k THEN Drop(Tail(b), k - Head(b).n)
    ELSE <<Run(Head(b).from + k * Head(b).ch, Head(b).n - k, Head(b).ch)>> \o Tail(b)

\* -------------------------------------------------------------- negotiation
Config(ch, lo, hi, fmt) ==
    [channels |-> ch, min_sample_rate |-> lo, max_sample_rate |-> hi, sample_format |-> fmt]

SupportedFormats == {"F32", "I16", "U16", "U8"}

\* u32 as i32
AsI32(x) == IF x > 2147483647 THEN x - 2147483647 - 2147483647 - 2 ELSE x

Abs(x) == IF x < 0 THEN -x ELSE x

MinOf(a, b) == IF a <= b THEN a ELSE b

InRange(c, rate) == c.min_sample_rate <= rate /\ c.max_sample_rate >= rate

\* Iterator::find over the indices in idx: the first one, 0 for None
FirstIn(idx) == IF idx = {} THEN 0 ELSE CHOOSE i \in idx : \A j \in idx : i <= j

RateDistance(c, rate) ==
    MinOf(Abs(AsI32(c.min_sample_rate) - AsI32(rate)),
          Abs(AsI32(c.max_sample_rate) - AsI32(rate)))

\* Iterator::min_by_key: the first of the minimal elements, 0 for None
MinByDistance(cfgs, idx, rate) ==
    FirstIn({i \in idx : \A j \in idx : RateDistance(cfgs[i], rate) <= RateDistance(cfgs[j], rate)})

\* Iterator::max_by_key: the last of the maximal elements, 0 for None
MaxByMaxRate(cfgs, idx) ==
    LET best == {i \in idx : \A j \in idx : cfgs[i].max_sample_rate >= cfgs[j].max_sample_rate}
    IN  IF best = {} THEN 0 ELSE CHOOSE i \in best : \A j \in best : i >= j

ExactMatch(cfgs, rate, ch) ==
    FirstIn({i \in DOMAIN cfgs : cfgs[i].channels = ch /\ InRange(cfgs[i], rate)})

\* faulty variant: the first configuration with the channel count, whatever
\* its distance to the rate
ChannelMatchFirst(cfgs, rate, ch) ==
    FirstIn({i \in DOMAIN cfgs : cfgs[i].channels = ch})

ChannelMatch(cfgs, rate, ch) ==
    MinByDistance(cfgs, {i \in DOMAIN cfgs : cfgs[i].channels = ch}, rate)

MonoMatch(cfgs) ==
    MaxByMaxRate(cfgs, {i \in DOMAIN cfgs : cfgs[i].channels = 1})

\* faulty variant: the ladder ends without the last step
FirstConfigNone(cfgs) == 0

FirstConfig(cfgs) == IF cfgs = <<>> THEN 0 ELSE 1

\* the precedence ladder of start_capture: the index selected, 0 for None
SelectConfig(cfgs, rate, ch) ==
    IF ExactMatch(cfgs, rate, ch) # 0 THEN ExactMatch(cfgs, rate, ch)
    ELSE IF ChannelMatch(cfgs, rate, ch) # 0 THEN ChannelMatch(cfgs, rate, ch)
    ELSE IF MonoMatch(cfgs) # 0 THEN MonoMatch(cfgs)
    ELSE FirstConfig(cfgs)

\* faulty variant: the desired rate, unclamped
ChosenRateUnclamped(c, rate) == rate

\* the sample rate the stream is opened with
ChosenRate(c, rate) ==
    IF InRange(c, rate) THEN rate
    ELSE IF rate < c.min_sample_rate THEN c.min_sample_rate
    ELSE c.max_sample_rate

\* setup_output_stream: exact match, else the first configuration
SelectOutputConfig(cfgs, rate, ch) ==
    IF ExactMatch(cfgs, rate, ch) # 0 THEN ExactMatch(cfgs, rate, ch)
    ELSE FirstConfig(cfgs)

\* ------------------------------------------------------------------- state
VARIABLES
    \* the host (cpal): its input devices, its default input and output device
    host_inputs, default_input, host_output,
    \* the build: with the feature real_whisper, or the simulated transcriber
    real_whisper,
    \* AudioCapture: whether the object exists, and its fields
    capture_alive, device, stream, sample_rate, channels, buffer, tx,
    playback_enabled, output_device, output_stream, playback_buffer,
    \* the caller's channel ends, and the chunk channels
    env_tx, env_rx, chans,
    \* Transcriber and its worker threads
    ctx, should_stop, processing_thread, threads, caller,
    \* bookkeeping for the properties
    delivered, ncallbacks, emitted, last_start, last_call, select_result,
    playback_log,
    \* a function of the pipeline applied on its own: its arguments, its result
    call, ret,
    \* the three mutexes (who holds each) and where the capture callback, the
    \* output callback and the worker are between their lock operations
    lock_owner, at

captureVars == <<device, stream, sample_rate, channels, buffer, tx,
                 playback_enabled, output_device, output_stream, playback_buffer>>
hostVars == <<host_inputs, default_input, host_output, capture_alive, real_whisper>>
chanVars == <<env_tx, env_rx, chans>>
workerVars == <<ctx, should_stop, processing_thread, threads, caller>>
logVars == <<delivered, ncallbacks, emitted, last_start, last_call, select_result,
            playback_log>>

callVars == <<call, ret>>
lockVars == <<lock_owner, at>>

\* the fields of the AudioCapture, as an operation finds them
CaptureState ==
    [device |-> device, stream |-> stream, sample_rate |-> sample_rate,
     channels |-> channels, buffer |-> buffer, tx |-> tx,
     playback_enabled |-> playback_enabled, output_device |-> output_device,
     output_stream |-> output_stream, playback_buffer |-> playback_buffer]

vars == <<hostVars, captureVars, chanVars, workerVars, logVars, callVars, lockVars>>

\* ------------------------------------------------------------ the channels
NewChan == [queue |-> <<>>, sent |-> <<>>, recvd |-> <<>>, age |-> 0]

\* a Receiver is alive while the caller holds it or a worker that has not
\* returned owns it
RxAlive(c) ==
    \/ env_rx = c
    \/ \E t \in DOMAIN threads : threads[t].rx = c /\ threads[t].pc # "done"

\* a Sender is held by the caller, by AudioCapture.tx, or by the callback
\* closure of the input stream
SenderCount(c) ==
    (IF env_tx = c THEN 1 ELSE 0) + (IF tx = c THEN 1 ELSE 0)
    + (IF stream # None /\ stream[1].sender = c THEN 1 ELSE 0)

Disconnected(c) == SenderCount(c) = 0

\* Sender::send: enqueues at the back, fails when the receiver is gone
Send(ch, chunk) ==
    [ch EXCEPT !.queue = Append(@, chunk), !.sent = Append(@, chunk)]

\* ----------------------------------------------------------- AudioCapture
\* faulty variant: any device of that name, an input device or not
DeviceByNameUnfiltered(name) ==
    FirstIn({i \in DOMAIN host_inputs : host_inputs[i].name = name})

\* select_device
DeviceByName(name) ==
    FirstIn({i \in DOMAIN host_inputs :
                Len(host_inputs[i].configs) > 0 /\ host_inputs[i].name = name})

SelectDevice(name, enum_ok) ==
    LET found == IF name = None THEN 0 ELSE DeviceByName(name[1])
        pick  == IF found # 0 THEN found ELSE default_input
    IN  /\ capture_alive
        /\ IF enum_ok /\ pick # 0
           THEN /\ device' = pick
                /\ output_device' = host_output
           ELSE UNCHANGED <<device, output_device>>
        /\ select_result' = IF enum_ok /\ pick # 0 THEN "ok" ELSE "err"
        /\ UNCHANGED <<stream, sample_rate, channels, buffer, tx, playback_enabled,
                       output_stream, playback_buffer>>
        /\ UNCHANGED <<callVars, lockVars, hostVars, chanVars, workerVars>>
        /\ UNCHANGED <<delivered, ncallbacks, emitted, playback_log, last_start, last_call>>

\* setup_output_stream: [stream, err]
SetupOutputStream(cfgs, rate, ch, out) ==
    LET sel == SelectOutputConfig(cfgs, rate, ch)
    IN  IF out = "query_err" THEN [stream |-> None, err |-> TRUE]
        ELSE IF sel = 0 THEN [stream |-> None, err |-> FALSE]
        ELSE IF cfgs[sel].sample_format \notin SupportedFormats
             THEN [stream |-> None, err |-> FALSE]
        ELSE IF out = "build_err" THEN [stream |-> None, err |-> TRUE]
        ELSE [stream |-> Some([sample_rate |-> ChosenRate(cfgs[sel], rate),
                               channels |-> cfgs[sel].channels,
                               sample_format |-> cfgs[sel].sample_format]),
              err |-> FALSE]

\* prepare_output_device: [output_device, output_stream, err]
PrepareOutputDevice(enabled, out) ==
    IF enabled /\ output_stream = None
    THEN LET dev == IF output_device = None THEN host_output ELSE output_device
         IN  IF dev = None
             THEN [output_device |-> None, output_stream |-> None, err |-> FALSE]
             ELSE LET r == SetupOutputStream(dev[1].configs, sample_rate, channels, out)
                  IN  [output_device |-> dev, output_stream |-> r.stream, err |-> r.err]
    ELSE [output_device |-> output_device, output_stream |-> output_stream, err |-> FALSE]

\* start_capture, up to the point it returns: [result, sel, rate, channels, stream]
StartCaptureOutcome(sender, prep, inp) ==
    LET cfgs == IF device = 0 THEN <<>> ELSE host_inputs[device].configs
        sel  == SelectConfig(cfgs, sample_rate, channels)
        keep == [sel |-> 0, rate |-> sample_rate, channels |-> channels, stream |-> stream]
    IN  IF prep.err THEN [result |-> "err_output"] @@ keep
        ELSE IF device = 0 THEN [result |-> "err_no_device"] @@ keep
        ELSE IF inp = "query_err" THEN [result |-> "err_query"] @@ keep
        ELSE IF cfgs = <<>> THEN [result |-> "err_no_config"] @@ keep
        ELSE IF sel = 0 THEN [result |-> "err_incompatible"] @@ keep
        ELSE LET rate == ChosenRate(cfgs[sel], sample_rate)
                 neg  == [sel |-> sel, rate |-> rate, channels |-> cfgs[sel].channels]
             IN  IF cfgs[sel].sample_format \notin SupportedFormats
                 THEN [result |-> "err_format", stream |-> stream] @@ neg
                 ELSE IF inp = "build_err"
                 THEN [result |-> "err_build", stream |-> stream] @@ neg
                 ELSE [result |-> "ok",
                       stream |-> Some([sender |-> sender,
                                        channels |-> cfgs[sel].channels,
                                        sample_rate |-> rate,
                                        sample_format |-> cfgs[sel].sample_format,
                                        playback_enabled |-> playback_enabled])] @@ neg

StartCapture(out, inp) ==
    /\ capture_alive
    /\ env_tx # 0
    /\ LET prep == PrepareOutputDevice(playback_enabled, out)
           r    == StartCaptureOutcome(env_tx, prep, inp)
       IN  /\ tx' = env_tx
           /\ env_tx' = 0
           /\ output_device' = prep.output_device
           /\ output_stream' = prep.output_stream
           /\ sample_rate' = r.rate
           /\ channels' = r.channels
           /\ stream' = r.stream
           /\ last_start' = [device |-> device, want_rate |-> sample_rate,
                             want_channels |-> channels, sel |-> r.sel,
                             rate |-> r.rate, channels |-> r.channels,
                             result |-> r.result,
                             at_delivered |-> delivered,
                             at_buffered |-> RLen(buffer),
                             at_emitted |-> Len(emitted)]
    /\ UNCHANGED <<device, buffer, playback_enabled, playback_buffer>>
    /\ UNCHANGED <<callVars, lockVars, hostVars, env_rx, chans, workerVars>>
    /\ UNCHANGED <<delivered, ncallbacks, emitted, playback_log, last_call, select_result>>

\* the downmix of process_audio_data: every group of c consecutive samples
\* becomes their mean (a chunk is a whole number of groups)
Downmix(chunk, c) ==
    IF c > 1
    THEN [i \in DOMAIN chunk |-> Run(chunk[i].from, chunk[i].n \div c, chunk[i].ch * c)]
    ELSE chunk

\* the chunk process_audio_data cuts from the accumulation buffer b, if any
ChunkSize(c) == SamplesPerSecond * c

CutsChunk(b, c) == RLen(b) >= ChunkSize(c)

\* faulty variant: a channel of capacity one, send waits for room
CaptureCallbackBounded(d) ==
    /\ stream # None
    /\ chans[stream[1].sender].queue = <<>>
    /\ ncallbacks < MaxCallbacks
    /\ d % stream[1].channels = 0
    /\ LET s     == stream[1]
           input == <<Run(delivered, d, 1)>>
           buf   == Extend(buffer, input)
           cut   == CutsChunk(buf, s.channels)
           audio_chunk == Take(buf, ChunkSize(s.channels))
           mono_chunk  == Downmix(audio_chunk, s.channels)
       IN  /\ playback_buffer' = IF s.playback_enabled
                                 THEN Extend(playback_buffer, input)
                                 ELSE playback_buffer
           /\ playback_log' = IF s.playback_enabled
                              THEN [playback_log EXCEPT !.appended = Extend(@, input)]
                              ELSE playback_log
           /\ buffer' = IF cut THEN Drop(buf, ChunkSize(s.channels)) ELSE buf
           /\ chans' = IF cut /\ RxAlive(s.sender)
                       THEN [chans EXCEPT ![s.sender] = Send(@, mono_chunk)]
                       ELSE chans
           /\ emitted' = IF cut THEN Append(emitted, audio_chunk) ELSE emitted
    /\ delivered' = delivered + d
    /\ ncallbacks' = ncallbacks + 1
    /\ UNCHANGED <<device, stream, sample_rate, channels, tx, playback_enabled,
                   output_device, output_stream>>
    /\ UNCHANGED <<callVars, lockVars, hostVars, env_tx, env_rx, workerVars, last_start, last_call,
                   select_result>>

\* faulty variant: a chunk that cannot be sent stays in the accumulation
\* buffer
CaptureCallbackKeepsUnsent(d) ==
    /\ stream # None
    /\ ncallbacks < MaxCallbacks
    /\ d % stream[1].channels = 0
    /\ LET s     == stream[1]
           input == <<Run(delivered, d, 1)>>
           buf   == Extend(buffer, input)
           cut   == CutsChunk(buf, s.channels)
           audio_chunk == Take(buf, ChunkSize(s.channels))
           mono_chunk  == Downmix(audio_chunk, s.channels)
       IN  /\ playback_buffer' = IF s.playback_enabled
                                 THEN Extend(playback_buffer, input)
                                 ELSE playback_buffer
           /\ playback_log' = IF s.playback_enabled
                              THEN [playback_log EXCEPT !.appended = Extend(@, input)]
                              ELSE playback_log
           /\ buffer' = IF cut /\ RxAlive(s.sender)
                        THEN Drop(buf, ChunkSize(s.channels)) ELSE buf
           /\ chans' = IF cut /\ RxAlive(s.sender)
                       THEN [chans EXCEPT ![s.sender] = Send(@, mono_chunk)]
                       ELSE chans
           /\ emitted' = IF cut THEN Append(emitted, audio_chunk) ELSE emitted
    /\ delivered' = delivered + d
    /\ ncallbacks' = ncallbacks + 1
    /\ UNCHANGED <<device, stream, sample_rate, channels, tx, playback_enabled,
                   output_device, output_stream>>
    /\ UNCHANGED <<callVars, lockVars, hostVars, env_tx, env_rx, workerVars, last_start, last_call,
                   select_result>>

\* the input callback of the stream: process_audio_data on d samples
CaptureCallback(d) ==
    /\ stream # None
    /\ ncallbacks < MaxCallbacks
    /\ d % stream[1].channels = 0
    /\ LET s     == stream[1]
           input == <<Run(delivered, d, 1)>>
           buf   == Extend(buffer, input)
           cut   == CutsChunk(buf, s.channels)
           audio_chunk == Take(buf, ChunkSize(s.channels))
           mono_chunk  == Downmix(audio_chunk, s.channels)
       IN  /\ playback_buffer' = IF s.playback_enabled
                                 THEN Extend(playback_buffer, input)
                                 ELSE playback_buffer
           /\ playback_log' = IF s.playback_enabled
                              THEN [playback_log EXCEPT !.appended = Extend(@, input)]
                              ELSE playback_log
           /\ buffer' = IF cut THEN Drop(buf, ChunkSize(s.channels)) ELSE buf
           /\ chans' = IF cut /\ RxAlive(s.sender)
                       THEN [chans EXCEPT ![s.sender] = Send(@, mono_chunk)]
                       ELSE chans
           /\ emitted' = IF cut THEN Append(emitted, audio_chunk) ELSE emitted
    /\ delivered' = delivered + d
    /\ ncallbacks' = ncallbacks + 1
    /\ UNCHANGED <<device, stream, sample_rate, channels, tx, playback_enabled,
                   output_device, output_stream>>
    /\ UNCHANGED <<callVars, lockVars, hostVars, env_tx, env_rx, workerVars, last_start, last_call,
                   select_result>>

\* faulty variant: the samples are copied to the device and left in the
\* playback buffer
PlaybackCallbackNoDrain(m) ==
    /\ output_stream # None
    /\ LET len == MinOf(m, RLen(playback_buffer))
       IN  playback_log' = [playback_log EXCEPT
                               !.played = Extend(@, Take(playback_buffer, len))]
    /\ UNCHANGED <<delivered, ncallbacks, emitted, last_start, last_call, select_result>>
    /\ UNCHANGED <<callVars, lockVars, hostVars, captureVars, chanVars, workerVars>>

\* the output callback of the loopback stream, asked for m samples: the
\* first min(m, len) samples of the playback buffer go to the device and are
\* drained
PlaybackCallback(m) ==
    /\ output_stream # None
    /\ LET len == MinOf(m, RLen(playback_buffer))
       IN  /\ playback_buffer' = Drop(playback_buffer, len)
           /\ playback_log' = [playback_log EXCEPT
                                   !.played = Extend(@, Take(playback_buffer, len))]
    /\ UNCHANGED <<device, stream, sample_rate, channels, buffer, tx, playback_enabled,
                   output_device, output_stream>>
    /\ UNCHANGED <<delivered, ncallbacks, emitted, last_start, last_call, select_result>>
    /\ UNCHANGED <<callVars, lockVars, hostVars, chanVars, workerVars>>

\* faulty variant: only the input stream is released
StopCaptureKeepsOutput ==
    /\ capture_alive
    /\ stream' = None
    /\ UNCHANGED <<device, sample_rate, channels, buffer, tx, playback_enabled,
                   output_device, output_stream, playback_buffer>>
    /\ UNCHANGED <<callVars, lockVars, hostVars, chanVars, workerVars, logVars>>

\* stop_capture
StopCapture ==
    /\ capture_alive
    /\ stream' = None
    /\ output_stream' = None
    /\ UNCHANGED <<device, sample_rate, channels, buffer, tx, playback_enabled,
                   output_device, playback_buffer>>
    /\ UNCHANGED <<callVars, lockVars, hostVars, chanVars, workerVars, logVars>>

\* Drop for AudioCapture: stop_capture, then the fields are dropped, the
\* Sender in tx among them
DropCapture ==
    /\ capture_alive
    /\ capture_alive' = FALSE
    /\ stream' = None
    /\ output_stream' = None
    /\ tx' = 0
    /\ UNCHANGED <<callVars, lockVars, host_inputs, default_input, host_output, real_whisper>>
    /\ UNCHANGED <<device, sample_rate, channels, buffer, playback_enabled,
                   output_device, playback_buffer>>
    /\ UNCHANGED <<chanVars, workerVars, logVars>>

\* faulty variant: disabling leaves the output stream as it is
SetPlaybackEnabledKeepsStream(enabled, out) ==
    /\ capture_alive
    /\ playback_enabled' = enabled
    /\ LET prep == PrepareOutputDevice(enabled, out)
       IN  /\ output_device' = prep.output_device
           /\ output_stream' = prep.output_stream
    /\ UNCHANGED <<device, stream, sample_rate, channels, buffer, tx, playback_buffer>>
    /\ UNCHANGED <<callVars, lockVars, hostVars, chanVars, workerVars, logVars>>

\* set_playback_enabled
SetPlaybackEnabled(enabled, out) ==
    /\ capture_alive
    /\ playback_enabled' = enabled
    /\ LET prep == PrepareOutputDevice(enabled, out)
       IN  /\ output_device' = prep.output_device
           /\ output_stream' = IF enabled THEN prep.output_stream ELSE None
    /\ UNCHANGED <<device, stream, sample_rate, channels, buffer, tx, playback_buffer>>
    /\ UNCHANGED <<callVars, lockVars, hostVars, chanVars, workerVars, logVars>>

\* ------------------------------------------------------------- the caller
\* mpsc::channel(): the caller holds both ends of the new channel
CreateChannel ==
    /\ env_tx = 0 /\ env_rx = 0
    /\ Len(chans) < MaxChannels
    /\ chans' = Append(chans, NewChan)
    /\ env_tx' = Len(chans) + 1
    /\ env_rx' = Len(chans) + 1
    /\ UNCHANGED <<callVars, lockVars, hostVars, captureVars, workerVars, logVars>>

\* the caller drops the Sender it holds
DropSender ==
    /\ env_tx # 0
    /\ env_tx' = 0
    /\ UNCHANGED <<env_rx, chans>>
    /\ UNCHANGED <<callVars, lockVars, hostVars, captureVars, workerVars, logVars>>

\* ------------------------------------------------------------- Transcriber
\* a String is a sequence of characters
IsSpace(c) == c = " "

RECURSIVE TrimStart(_)
TrimStart(str) ==
    IF str # <<>> /\ IsSpace(Head(str)) THEN TrimStart(Tail(str)) ELSE str

RECURSIVE TrimEnd(_)
TrimEnd(str) ==
    IF str # <<>> /\ IsSpace(Last(str)) THEN TrimEnd(Front(str)) ELSE str

\* str::trim
Trim(str) == TrimEnd(TrimStart(str))

InitialMessage == <<"i">>

\* faulty variant: the segments are sent as the engine returned them
RECURSIVE SegmentsUntrimmed(_)
SegmentsUntrimmed(segs) ==
    IF segs = <<>> THEN <<>>
    ELSE IF Trim(Head(segs)) # <<>>
         THEN <<Head(segs)>> \o SegmentsUntrimmed(Tail(segs))
         ELSE SegmentsUntrimmed(Tail(segs))

\* what one pass sends on text_tx: the trimmed non-empty segments, in order
RECURSIVE SegmentsToSend(_)
SegmentsToSend(segs) ==
    IF segs = <<>> THEN <<>>
    ELSE IF Trim(Head(segs)) # <<>>
         THEN <<Trim(Head(segs))>> \o SegmentsToSend(Tail(segs))
         ELSE SegmentsToSend(Tail(segs))

\* the worker's text channel: Sender::send fails once the receiver is gone
TextSend(text, msgs) ==
    IF text.alive THEN [text EXCEPT !.out = @ \o msgs] ELSE text

\* the trigger of a pass (buffer_duration and elapsed, in samples and ms)
Trigger(len, elapsed) ==
    \/ len >= 2 * SamplesPerSecond
    \/ len >= SamplesPerSecond /\ elapsed >= MinInterval

\* faulty variant: the oldest half second is kept
RetainOldest(b) == Take(b, RetainSize)

\* what a successful pass leaves in audio_buffer
Retain(b) ==
    IF RLen(b) > RetainSize THEN Drop(b, RLen(b) - RetainSize) ELSE <<>>

\* faulty variant: a failed pass keeps the trailing half second too
ClearBufferKeepsTail(b) == Retain(b)

\* what a failed pass leaves in audio_buffer
ClearBuffer(b) == <<>>

\* the thread start_processing spawns, before it has run
NewThread(rx) ==
    [pc |-> "init", rx |-> rx, audio_buffer |-> <<>>, elapsed |-> 0,
     reusable_state |-> FALSE, ctx_locked |-> FALSE, waited |-> 0,
     text |-> [alive |-> TRUE, out |-> <<>>],
     recv_log |-> None, pass_log |-> None]

\* load_model: with real_whisper the context is stored on success and left
\* alone on failure; the simulated load_model only warns and returns Ok
LoadModel(outcome) ==
    LET ok == ~real_whisper \/ outcome = "ok"
    IN  /\ caller = 0
        /\ ctx' = IF real_whisper /\ outcome = "ok" THEN TRUE ELSE ctx
        /\ last_call' = [op |-> "load_model", ok |-> ok, outcome |-> outcome,
                         loaded |-> last_call.loaded \/ ok]
        /\ UNCHANGED <<should_stop, processing_thread, threads, caller>>
        /\ UNCHANGED <<callVars, lockVars, hostVars, captureVars, chanVars>>
        /\ UNCHANGED <<delivered, ncallbacks, emitted, playback_log, last_start, select_result>>

\* whether start_processing goes on to spawn: with real_whisper only if a
\* context is there, in the simulated build always
Spawns == real_whisper => ctx

\* faulty variant: the flag is reset before the model is looked at
StartProcessingResetsFirst ==
    /\ caller = 0
    /\ env_rx # 0
    /\ Spawns => Len(threads) < MaxThreads
    /\ should_stop' = FALSE
    /\ IF Spawns
       THEN /\ ctx' = FALSE
            /\ threads' = Append(threads, NewThread(env_rx))
            /\ processing_thread' = Len(threads) + 1
       ELSE UNCHANGED <<ctx, threads, processing_thread>>
    /\ env_rx' = 0
    /\ last_call' = [op |-> "start_processing", ok |-> Spawns,
                     loaded |-> last_call.loaded,
                     before |-> [model |-> IF real_whisper THEN ctx
                                           ELSE last_call.loaded,
                                 should_stop |-> should_stop,
                                 processing_thread |-> processing_thread,
                                 threads |-> Len(threads)]]
    /\ UNCHANGED <<caller, env_tx, chans>>
    /\ UNCHANGED <<callVars, lockVars, hostVars, captureVars>>
    /\ UNCHANGED <<delivered, ncallbacks, emitted, playback_log, last_start, select_result>>

\* faulty variant: the worker gets a copy of the context and the Transcriber
\* keeps its own
StartProcessingKeepsModel ==
    /\ caller = 0
    /\ env_rx # 0
    /\ Spawns => Len(threads) < MaxThreads
    /\ IF Spawns
       THEN /\ should_stop' = FALSE
            /\ ctx' = ctx
            /\ threads' = Append(threads, NewThread(env_rx))
            /\ processing_thread' = Len(threads) + 1
       ELSE UNCHANGED <<should_stop, ctx, threads, processing_thread>>
    /\ env_rx' = 0
    /\ last_call' = [op |-> "start_processing", ok |-> Spawns,
                     loaded |-> last_call.loaded,
                     before |-> [model |-> IF real_whisper THEN ctx
                                           ELSE last_call.loaded,
                                 should_stop |-> should_stop,
                                 processing_thread |-> processing_thread,
                                 threads |-> Len(threads)]]
    /\ UNCHANGED <<caller, env_tx, chans>>
    /\ UNCHANGED <<callVars, lockVars, hostVars, captureVars>>
    /\ UNCHANGED <<delivered, ncallbacks, emitted, playback_log, last_start, select_result>>

\* start_processing: the receiver is moved in
StartProcessing ==
    /\ caller = 0
    /\ env_rx # 0
    /\ Spawns => Len(threads) < MaxThreads
    /\ IF Spawns
       THEN /\ should_stop' = FALSE
            /\ ctx' = FALSE
            /\ threads' = Append(threads, NewThread(env_rx))
            /\ processing_thread' = Len(threads) + 1
       ELSE UNCHANGED <<should_stop, ctx, threads, processing_thread>>
    /\ env_rx' = 0
    /\ last_call' = [op |-> "start_processing", ok |-> Spawns,
                     loaded |-> last_call.loaded,
                     before |-> [model |-> IF real_whisper THEN ctx
                                           ELSE last_call.loaded,
                                 should_stop |-> should_stop,
                                 processing_thread |-> processing_thread,
                                 threads |-> Len(threads)]]
    /\ UNCHANGED <<caller, env_tx, chans>>
    /\ UNCHANGED <<callVars, lockVars, hostVars, captureVars>>
    /\ UNCHANGED <<delivered, ncallbacks, emitted, playback_log, last_start, select_result>>

\* stop: sets the flag, takes the handle and joins it
Stop ==
    /\ caller = 0
    /\ should_stop' = TRUE
    /\ processing_thread' = 0
    /\ caller' = processing_thread
    /\ last_call' = [op |-> "stop", ok |-> TRUE, loaded |-> last_call.loaded]
    /\ UNCHANGED <<ctx, threads>>
    /\ UNCHANGED <<callVars, lockVars, hostVars, captureVars, chanVars>>
    /\ UNCHANGED <<delivered, ncallbacks, emitted, playback_log, last_start, select_result>>

\* handle.join() returns once the joined thread has returned
StopJoined ==
    /\ caller # 0
    /\ threads[caller].pc = "done"
    /\ caller' = 0
    /\ UNCHANGED <<ctx, should_stop, processing_thread, threads>>
    /\ UNCHANGED <<callVars, lockVars, hostVars, captureVars, chanVars, logVars>>

\* --------------------------------------------------------- the worker loop
workerFrame ==
    <<callVars, lockVars, hostVars, captureVars, env_tx, env_rx, ctx, should_stop, processing_thread,
      caller, logVars>>

\* the thread's prologue: the initial message, the buffer, the timer and the
\* reusable engine state (create_state may fail; the simulated worker has no
\* engine state)
ThreadInit(t, state_ok) ==
    /\ threads[t].pc = "init"
    /\ state_ok => real_whisper
    /\ threads' = [threads EXCEPT ![t] =
            [@ EXCEPT !.pc = "loop",
                      !.text = TextSend(@, <<InitialMessage>>),
                      !.audio_buffer = <<>>,
                      !.elapsed = 0,
                      !.reusable_state = state_ok]]
    /\ UNCHANGED <<workerFrame, chans>>

\* faulty variant: the loop goes on while chunks are queued
LoopHeadDrainsQueue(t) ==
    /\ threads[t].pc = "loop"
    /\ threads' = [threads EXCEPT ![t] =
            IF should_stop /\ chans[threads[t].rx].queue = <<>>
            THEN [@ EXCEPT !.pc = "done"]
            ELSE [@ EXCEPT !.pc = "recv", !.waited = 0]]
    /\ UNCHANGED <<workerFrame, chans>>

\* while !should_stop.load(): leave, or enter recv_timeout(100 ms)
LoopHead(t) ==
    /\ threads[t].pc = "loop"
    /\ threads' = [threads EXCEPT ![t] =
            IF should_stop
            THEN [@ EXCEPT !.pc = "done"]
            ELSE [@ EXCEPT !.pc = "recv", !.waited = 0]]
    /\ UNCHANGED <<workerFrame, chans>>

\* faulty variant: the newest chunk is handed out first
RecvNewest(ch) ==
    [data |-> Last(ch.queue),
     chan |-> [ch EXCEPT !.queue = Front(@), !.recvd = Append(@, Last(ch.queue))]]

\* Receiver::recv_timeout returning Ok: the chunk at the front of the queue,
\* and the channel without it
Recv(ch) ==
    [data |-> Head(ch.queue),
     chan |-> [ch EXCEPT !.queue = Tail(@), !.recvd = Append(@, Head(ch.queue))]]

\* the thread after Ok(audio_data): append, then start a pass or go on
AfterChunk(th, audio_data) ==
    LET buf     == Extend(th.audio_buffer, audio_data)
        elapsed == th.elapsed
        pass    == /\ Trigger(RLen(buf), elapsed)
                   /\ buf # <<>> /\ th.reusable_state
                   /\ ~th.ctx_locked
    IN  [th EXCEPT !.audio_buffer = buf,
                   !.pc = IF pass THEN "infer" ELSE "loop",
                   !.ctx_locked = pass,
                   !.pass_log = None,
                   !.recv_log = Some([len |-> RLen(buf), elapsed |-> elapsed, pass |-> pass])]

RecvChunk(t) ==
    /\ threads[t].pc = "recv"
    /\ chans[threads[t].rx].queue # <<>>
    /\ chans' = [chans EXCEPT ![threads[t].rx] = Recv(@).chan]
    /\ threads' = [threads EXCEPT ![t] = AfterChunk(@, Recv(chans[threads[t].rx]).data)]
    /\ UNCHANGED workerFrame

\* the thread after Err(Timeout): continue
AfterTimeout(th) == [th EXCEPT !.pc = "loop"]

\* faulty variant: a disconnect is treated like a timeout
AfterDisconnectedContinue(th) == [th EXCEPT !.pc = "loop"]

\* the thread after Err(Disconnected): break
AfterDisconnected(th) == [th EXCEPT !.pc = "done"]

\* Err(RecvTimeoutError::Timeout)
RecvTimeout(t) ==
    /\ threads[t].pc = "recv"
    /\ chans[threads[t].rx].queue = <<>>
    /\ ~Disconnected(threads[t].rx)
    /\ threads[t].waited >= PollTimeout
    /\ threads' = [threads EXCEPT ![t] = AfterTimeout(@)]
    /\ UNCHANGED <<workerFrame, chans>>

\* Err(RecvTimeoutError::Disconnected)
RecvDisconnected(t) ==
    /\ threads[t].pc = "recv"
    /\ chans[threads[t].rx].queue = <<>>
    /\ Disconnected(threads[t].rx)
    /\ threads' = [threads EXCEPT ![t] = AfterDisconnected(@)]
    /\ UNCHANGED <<workerFrame, chans>>

\* the sends of one pass on a text channel whose receiver takes k more
\* messages before it is dropped: the first send that fails ends the loop
SendSegments(text, msgs, k) ==
    LET n == IF text.alive THEN MinOf(k, Len(msgs)) ELSE 0
    IN  [alive |-> text.alive /\ n = Len(msgs),
         out   |-> text.out \o SubSeq(msgs, 1, n)]

\* faulty variant: a send that fails ends the pass, buffer and timer as they
\* were
AfterPassOkAbortsUnsent(th, segs, k) ==
    LET text == SendSegments(th.text, SegmentsToSend(segs), k)
        sent == Len(text.out) - Len(th.text.out)
        all  == sent = Len(SegmentsToSend(segs))
    IN  [th EXCEPT !.text = text,
                   !.audio_buffer = IF all THEN Retain(@) ELSE @,
                   !.elapsed = IF all THEN 0 ELSE @,
                   !.ctx_locked = FALSE,
                   !.pc = "loop",
                   !.pass_log = Some([input |-> th.audio_buffer, ok |-> TRUE,
                                      segments |-> Len(SegmentsToSend(segs)),
                                      sent |-> sent])]

\* the thread after state.full returned Ok and segs were read from the
\* engine, the receiver of text_tx taking k more messages
AfterPassOk(th, segs, k) ==
    LET text == SendSegments(th.text, SegmentsToSend(segs), k)
    IN  [th EXCEPT !.text = text,
                   !.audio_buffer = Retain(@),
                   !.elapsed = 0,
                   !.ctx_locked = FALSE,
                   !.pc = "loop",
                   !.pass_log = Some([input |-> th.audio_buffer, ok |-> TRUE,
                                      segments |-> Len(SegmentsToSend(segs)),
                                      sent |-> Len(text.out) - Len(th.text.out)])]

\* faulty variant: a failed pass ends the thread
AfterPassErrEnds(th) ==
    [th EXCEPT !.audio_buffer = ClearBuffer(@),
               !.elapsed = 0,
               !.ctx_locked = FALSE,
               !.pc = "done",
               !.pass_log = Some([input |-> th.audio_buffer, ok |-> FALSE,
                                  segments |-> 0, sent |-> 0])]

\* the thread after state.full returned Err
AfterPassErr(th) ==
    [th EXCEPT !.audio_buffer = ClearBuffer(@),
               !.elapsed = 0,
               !.ctx_locked = FALSE,
               !.pc = "loop",
               !.pass_log = Some([input |-> th.audio_buffer, ok |-> FALSE,
                                  segments |-> 0, sent |-> 0])]

InferOk(t, segs, k) ==
    /\ threads[t].pc = "infer"
    /\ threads' = [threads EXCEPT ![t] = AfterPassOk(@, segs, k)]
    /\ UNCHANGED <<workerFrame, chans>>

\* the consumer drops the receiver of the worker's text channel
DropTextReceiver(t) ==
    /\ threads[t].text.alive
    /\ threads' = [threads EXCEPT ![t].text.alive = FALSE]
    /\ UNCHANGED <<workerFrame, chans>>

InferErr(t) ==
    /\ threads[t].pc = "infer"
    /\ threads' = [threads EXCEPT ![t] = AfterPassErr(@)]
    /\ UNCHANGED <<workerFrame, chans>>

\* a thread that has a step to take without waiting
Urgent(t) ==
    \/ threads[t].pc \in {"init", "loop"}
    \/ /\ threads[t].pc = "recv"
       /\ \/ chans[threads[t].rx].queue # <<>>
          \/ Disconnected(threads[t].rx)
          \/ threads[t].waited >= PollTimeout

\* a thread after dt ms in recv_timeout or in state.full; the time since the
\* last pass is only ever compared with MinInterval
Later(th, dt) ==
    IF th.pc \in {"recv", "infer"}
    THEN [th EXCEPT !.elapsed = MinOf(@ + dt, MinInterval),
                    !.waited = IF th.pc = "recv" THEN @ + dt ELSE @]
    ELSE th

\* a channel after dt ms: the time it has been disconnected, up to two polls
Aged(c, dt) ==
    IF Disconnected(c)
    THEN [chans[c] EXCEPT !.age = MinOf(@ + dt, 2 * PollTimeout)]
    ELSE chans[c]

\* one poll timeout passes: threads wait in recv_timeout or compute in
\* state.full
Tick ==
    /\ \E t \in DOMAIN threads : threads[t].pc \in {"recv", "infer"}
    /\ \A t \in DOMAIN threads : ~Urgent(t)
    /\ threads' = [t \in DOMAIN threads |-> Later(threads[t], PollTimeout)]
    /\ chans' = [c \in DOMAIN chans |-> Aged(c, PollTimeout)]
    /\ UNCHANGED workerFrame

\* ------------------------------------------------- the downmix on samples
\* Samples are fixed-point numbers here, in units in which the means below
\* are whole.
RECURSIVE SumSeq(_)
SumSeq(slice) == IF slice = <<>> THEN 0 ELSE Head(slice) + SumSeq(Tail(slice))

\* faulty variant: a window sliding by one sample
FrameSliding(audio_chunk, i, c) == SubSeq(audio_chunk, i + 1, i + c)

\* &audio_chunk[i * channels..(i + 1) * channels]
Frame(audio_chunk, i, c) == SubSeq(audio_chunk, i * c + 1, (i + 1) * c)

\* slice.iter().sum() / channels
Avg(slice, c) == SumSeq(slice) \div c

\* for i in 0..mono_size { mono.push(avg) }, from index i on
RECURSIVE MonoLoop(_, _, _, _, _)
MonoLoop(audio_chunk, c, mono_size, i, mono) ==
    IF i >= mono_size THEN mono
    ELSE MonoLoop(audio_chunk, c, mono_size, i + 1,
                  Append(mono, Avg(Frame(audio_chunk, i, c), c)))

\* mono_chunk of process_audio_data, for a chunk of any length
MonoChunk(audio_chunk, c) ==
    IF c > 1
    THEN MonoLoop(audio_chunk, c, Len(audio_chunk) \div c, 0, <<>>)
    ELSE audio_chunk

\* the downmix applied to call.audio_chunk
DownmixCall ==
    /\ call.op = "downmix" /\ ret = None
    /\ ret' = Some(MonoChunk(call.audio_chunk, call.channels))
    /\ UNCHANGED <<call, lockVars, hostVars, captureVars, chanVars, workerVars, logVars>>

\* ------------------------------------------------- the sample conversions
\* An f32 sample is a fixed-point number in units of 1/32768: every float the
\* capture conversions produce is a whole number of these units.
One == 32768

\* a as T of Rust on a number already cut to an integer: saturating
Saturate(x, lo, hi) == IF x < lo THEN lo ELSE IF x > hi THEN hi ELSE x

\* the integer part of n / d (d > 0), towards zero
Trunc(n, d) == IF n >= 0 THEN n \div d ELSE -((-n) \div d)

\* the integer part of x * a / 65536 for x, a >= 0, the product taken in two
\* halves of x
MulDiv16(x, a) == ((x \div 256) * a + ((x % 256) * a) \div 256) \div 256

\* faulty variant: the unsigned formats lose their offset of 1.0
ToFloatNoOffset(fmt, s) ==
    CASE fmt = "F32" -> s
      [] fmt = "I16" -> (s * One) \div 32768
      [] fmt = "U16" -> (s * One) \div 32768
      [] fmt = "U8"  -> (s * One) \div 128

\* the input callbacks: a device sample as f32
ToFloat(fmt, s) ==
    CASE fmt = "F32" -> s
      [] fmt = "I16" -> (s * One) \div 32768
      [] fmt = "U16" -> (s * One) \div 32768 - One
      [] fmt = "U8"  -> (s * One) \div 128 - One

\* the output callbacks: an f32 of the playback buffer as a device sample
\* ((f * 32767.0) as i16, ((f + 1.0) * 32767.5) as u16,
\* ((f + 1.0) * 127.5) as u8)
FromFloat(fmt, f) ==
    CASE fmt = "F32" -> f
      [] fmt = "I16" -> Saturate(Trunc(f * 32767, One), -32768, 32767)
      [] fmt = "U16" -> IF f + One <= 0 THEN 0
                        ELSE IF f + One >= 2 * One THEN 65535
                        ELSE Saturate(MulDiv16(f + One, 65535), 0, 65535)
      [] fmt = "U8"  -> Saturate(Trunc((f + One) * 255, 2 * One), 0, 255)

\* a device sample converted by the input callback
CaptureConvert ==
    /\ call.op = "convert" /\ call.float_data = None
    /\ call' = [call EXCEPT !.float_data = Some(ToFloat(call.sample_format, call.s))]
    /\ UNCHANGED <<ret, lockVars, hostVars, captureVars, chanVars, workerVars, logVars>>

\* the float converted back by the output callback of the same format
PlaybackConvert ==
    /\ call.op = "convert" /\ call.float_data # None /\ ret = None
    /\ ret' = Some(FromFloat(call.sample_format, call.float_data[1]))
    /\ UNCHANGED <<call, lockVars, hostVars, captureVars, chanVars, workerVars, logVars>>

\* ------------------------------------------------- the output callbacks
\* the value the callbacks write when the playback buffer is empty
Silence(fmt) ==
    CASE fmt = "F32" -> 0
      [] fmt = "I16" -> 0
      [] fmt = "U16" -> 32768
      [] fmt = "U8"  -> 128

\* one output callback of a stream of format fmt: data is the slice handed
\* in by the device with whatever it holds, pbuf the playback buffer; the
\* result is the slice and the playback buffer when the callback returns
OutputCallback(fmt, data, pbuf) ==
    IF pbuf # <<>>
    THEN LET len == MinOf(Len(data), Len(pbuf))
         IN  [data   |-> [i \in 1..Len(data) |->
                             IF i <= len THEN FromFloat(fmt, pbuf[i]) ELSE data[i]],
              buffer |-> SubSeq(pbuf, len + 1, Len(pbuf))]
    ELSE [data |-> [i \in 1..Len(data) |-> Silence(fmt)], buffer |-> pbuf]

OutputCallbackCall ==
    /\ call.op = "output_callback" /\ ret = None
    /\ ret' = Some(OutputCallback(call.sample_format, call.data, call.buffer))
    /\ UNCHANGED <<call, lockVars, hostVars, captureVars, chanVars, workerVars, logVars>>

\* ------------------------------------------------------------- the locks
\* The three closures at the grain of their lock operations.  A context is
\* at a position; Mutex::lock waits until the mutex is free, try_lock does
\* not wait, a guard going out of scope releases.
Locks == {"buffer", "playback_buffer", "ctx"}
Contexts == {"capture", "output", "worker"}
Free == "free"

HeldBy(c) == {l \in Locks : lock_owner[l] = c}

lockFrame == <<callVars, hostVars, captureVars, chanVars, workerVars, logVars>>

Goto(c, from, to) ==
    /\ at[c] = from
    /\ at' = [at EXCEPT ![c] = to]
    /\ UNCHANGED <<lock_owner, lockFrame>>

\* Mutex::lock
Lock(c, l, from, to) ==
    /\ at[c] = from
    /\ lock_owner[l] = Free
    /\ lock_owner' = [lock_owner EXCEPT ![l] = c]
    /\ at' = [at EXCEPT ![c] = to]
    /\ UNCHANGED lockFrame

\* Mutex::try_lock
TryLock(c, l, from, to, else) ==
    /\ at[c] = from
    /\ IF lock_owner[l] = Free
       THEN /\ lock_owner' = [lock_owner EXCEPT ![l] = c]
            /\ at' = [at EXCEPT ![c] = to]
       ELSE /\ at' = [at EXCEPT ![c] = else]
            /\ UNCHANGED lock_owner
    /\ UNCHANGED lockFrame

\* the guard is dropped
Unlock(c, l, from, to) ==
    /\ at[c] = from
    /\ lock_owner' = [lock_owner EXCEPT ![l] = IF @ = c THEN Free ELSE @]
    /\ at' = [at EXCEPT ![c] = to]
    /\ UNCHANGED lockFrame

\* faulty variant: the guard of the playback buffer lives to the end of
\* process_audio_data
CaptureLockingNested ==
    \/ \E enabled \in BOOLEAN :
          Goto("capture", "idle", IF enabled THEN "lock_playback" ELSE "lock_buffer")
    \/ Lock("capture", "playback_buffer", "lock_playback", "extend_playback")
    \/ Goto("capture", "extend_playback", "lock_buffer")
    \/ Lock("capture", "buffer", "lock_buffer", "extend")
    \/ \E cut \in BOOLEAN : Goto("capture", "extend", IF cut THEN "send" ELSE "return")
    \/ Goto("capture", "send", "return")
    \/ /\ at["capture"] = "return"
       /\ lock_owner' = [l \in Locks |-> IF lock_owner[l] = "capture" THEN Free
                                         ELSE lock_owner[l]]
       /\ at' = [at EXCEPT !["capture"] = "idle"]
       /\ UNCHANGED lockFrame

\* process_audio_data: the playback buffer is locked inside the if block of
\* a stream built with playback enabled, the accumulation buffer from its
\* lock to the end of the function, the send (which never waits) included
CaptureLocking ==
    \/ \E enabled \in BOOLEAN :
          Goto("capture", "idle", IF enabled THEN "lock_playback" ELSE "lock_buffer")
    \/ Lock("capture", "playback_buffer", "lock_playback", "extend_playback")
    \/ Unlock("capture", "playback_buffer", "extend_playback", "lock_buffer")
    \/ Lock("capture", "buffer", "lock_buffer", "extend")
    \/ \E cut \in BOOLEAN : Goto("capture", "extend", IF cut THEN "send" ELSE "return")
    \/ Goto("capture", "send", "return")
    \/ Unlock("capture", "buffer", "return", "idle")

\* the output callbacks: the playback buffer is locked for the whole callback
OutputLocking ==
    \/ Goto("output", "idle", "lock_playback")
    \/ Lock("output", "playback_buffer", "lock_playback", "copy")
    \/ Unlock("output", "playback_buffer", "copy", "idle")

\* the worker closure: the initial message, the context locked for
\* create_state in the prologue; the test of the flag, recv_timeout, the
\* trigger, try_lock from the start of a pass to the end of its block, with
\* state.full and the sends of the segments (which never wait) inside
WorkerLocking ==
    \/ Goto("worker", "init", "lock_ctx")
    \/ Lock("worker", "ctx", "lock_ctx", "create_state")
    \/ Unlock("worker", "ctx", "create_state", "loop")
    \/ \E stop \in BOOLEAN : Goto("worker", "loop", IF stop THEN "done" ELSE "recv")
    \/ \E r \in {"chunk", "loop", "done"} : Goto("worker", "recv", r)
    \/ \E pass \in BOOLEAN : Goto("worker", "chunk", IF pass THEN "try_lock" ELSE "loop")
    \/ TryLock("worker", "ctx", "try_lock", "full", "loop")
    \/ \E ok \in BOOLEAN : Goto("worker", "full", IF ok THEN "send_text" ELSE "unlock")
    \/ Goto("worker", "send_text", "unlock")
    \/ Unlock("worker", "ctx", "unlock", "loop")

\* the positions at which a context waits for a lock, a channel or a thread
Waits == {"lock_playback", "lock_buffer", "lock_ctx", "recv"}

\* the lock a context waits for
WaitsFor(c) ==
    CASE at[c] = "lock_playback" -> "playback_buffer"
      [] at[c] = "lock_buffer"   -> "buffer"
      [] at[c] = "lock_ctx"      -> "ctx"
      [] OTHER                   -> Free

\* ------------------------------------------------------ the specifications
\* the host of the pipeline runs: a mono microphone, a stereo line input and
\* a loudspeaker
Mic == [name |-> "mic", configs |-> <<Config(1, 16000, 48000, "F32")>>]
LineIn == [name |-> "line", configs |-> <<Config(2, 44100, 48000, "I16")>>]
Speaker == [name |-> "spk", configs |-> <<Config(1, 16000, 48000, "F32")>>]

DeviceNames == {None, Some("mic"), Some("line")}
CallbackSizes == {1, 16000, 32000}
IoOutcomes == {"ok", "query_err", "build_err"}
LoadOutcomes == {"ok", "not_found", "load_err"}
EngineResults == {<<>>, << <<" ", "a">> >>}

\* AudioCapture::new and Transcriber::new
InitObjects ==
    /\ capture_alive = TRUE
    /\ device = 0 /\ stream = None
    /\ buffer = <<>> /\ tx = 0
    /\ playback_enabled = FALSE
    /\ output_device = None /\ output_stream = None /\ playback_buffer = <<>>
    /\ env_tx = 0 /\ env_rx = 0 /\ chans = <<>>
    /\ ctx = FALSE /\ should_stop = FALSE /\ processing_thread = 0
    /\ threads = <<>> /\ caller = 0
    /\ delivered = 0 /\ ncallbacks = 0 /\ emitted = <<>>
    /\ last_start = [device |-> 0, want_rate |-> 0, want_channels |-> 0, sel |-> 0,
                     rate |-> 0, channels |-> 0, result |-> "none",
                     at_delivered |-> 0, at_buffered |-> 0, at_emitted |-> 0]
    /\ last_call = [op |-> "new", ok |-> TRUE, loaded |-> FALSE]
    /\ select_result = "none"
    /\ playback_log = [appended |-> <<>>, played |-> <<>>]
    /\ lock_owner = [l \in Locks |-> Free]
    /\ at = [c \in Contexts |-> IF c = "worker" THEN "init" ELSE "idle"]

\* no function is applied on its own
NoCall == call = [op |-> "none"] /\ ret = None

Init ==
    /\ host_inputs = <<Mic, LineIn>>
    /\ default_input = 1
    /\ host_output = Some(Speaker)
    /\ real_whisper = TRUE
    /\ sample_rate = SamplesPerSecond /\ channels = 1
    /\ InitObjects
    /\ NoCall

\* the caller drops the Receiver it holds
DropReceiver ==
    /\ env_rx # 0
    /\ env_rx' = 0
    /\ UNCHANGED <<env_tx, chans>>
    /\ UNCHANGED <<callVars, lockVars, hostVars, captureVars, workerVars, logVars>>

\* a step of the worker thread t
ThreadStep(t) ==
    /\ t \in DOMAIN threads
    /\ \/ \E state_ok \in BOOLEAN : ThreadInit(t, state_ok)
       \/ LoopHead(t)
       \/ RecvChunk(t)
       \/ RecvTimeout(t)
       \/ RecvDisconnected(t)
       \/ \E segs \in EngineResults : InferOk(t, segs, Len(segs))
       \/ InferErr(t)

WorkerStep == \E t \in DOMAIN threads : ThreadStep(t)

\* one recording session as the application runs it: the default microphone,
\* one-second callbacks, a model that loads, one worker
Next ==
    \/ SelectDevice(None, TRUE)
    \/ (chans = <<>> /\ CreateChannel)
    \/ StartCapture("ok", "ok")
    \/ CaptureCallback(SamplesPerSecond)
    \/ StopCapture
    \/ DropCapture
    \/ LoadModel("ok")
    \/ (threads = <<>> /\ StartProcessing)
    \/ Stop
    \/ StopJoined
    \/ WorkerStep
    \/ Tick

Spec == Init /\ [][Next]_vars

\* the same session with threads that are scheduled, an engine whose passes
\* return, time that passes and a join that returns once the thread has
Scheduling ==
    /\ \A t \in 1..MaxThreads : WF_vars(ThreadStep(t))
    /\ WF_vars(Tick)
    /\ WF_vars(StopJoined)

SpecFair == Init /\ [][Next]_vars /\ Scheduling

\* a session whose engine returns several segments, blank ones among them,
\* and whose consumer may drop the text receiver at any point, between two
\* sends of a pass included
TextResults == {<<>>, << <<"a">>, <<" ">>, <<" ", "b">>, <<"c">> >>}
MaxSegments == 3

TextNext ==
    \/ SelectDevice(None, TRUE)
    \/ (chans = <<>> /\ CreateChannel)
    \/ StartCapture("ok", "ok")
    \/ CaptureCallback(SamplesPerSecond)
    \/ LoadModel("ok")
    \/ (threads = <<>> /\ StartProcessing)
    \/ \E t \in DOMAIN threads :
          \/ ThreadInit(t, TRUE)
          \/ LoopHead(t)
          \/ RecvChunk(t)
          \/ RecvTimeout(t)
          \/ \E segs \in TextResults, k \in 0..MaxSegments : InferOk(t, segs, k)
          \/ InferErr(t)
          \/ DropTextReceiver(t)
    \/ Tick

SpecText == Init /\ [][TextNext]_vars

\* the capture pipeline alone, under every device, outcome and callback size
CaptureNext ==
    \/ \E name \in DeviceNames, enum_ok \in BOOLEAN : SelectDevice(name, enum_ok)
    \/ \E out \in IoOutcomes, inp \in IoOutcomes : StartCapture(out, inp)
    \/ \E d \in CallbackSizes : CaptureCallback(d)
    \/ StopCapture
    \/ \E enabled \in BOOLEAN, out \in IoOutcomes : SetPlaybackEnabled(enabled, out)
    \/ CreateChannel
    \/ DropSender
    \/ DropReceiver

SpecCapture == Init /\ [][CaptureNext]_vars

\* the Transcriber under any sequence of load_model, start_processing and stop
\* calls, its workers polling channels whose senders the caller holds or drops
LifecycleNext ==
    \/ CreateChannel
    \/ DropSender
    \/ \E outcome \in LoadOutcomes : LoadModel(outcome)
    \/ StartProcessing
    \/ Stop
    \/ StopJoined
    \/ \E t \in DOMAIN threads :
        \/ \E state_ok \in BOOLEAN : ThreadInit(t, state_ok)
        \/ LoopHead(t)
        \/ RecvTimeout(t)
        \/ RecvDisconnected(t)
    \/ Tick

\* either build of the Transcriber
LifecycleInit ==
    /\ host_inputs = <<Mic, LineIn>>
    /\ default_input = 1
    /\ host_output = Some(Speaker)
    /\ real_whisper \in BOOLEAN
    /\ sample_rate = SamplesPerSecond /\ channels = 1
    /\ InitObjects
    /\ NoCall

SpecLifecycle == LifecycleInit /\ [][LifecycleNext]_vars

\* negotiation on any device: the host's default input device reports any list
\* of up to MaxConfigs configurations, and the AudioCapture asks for what
\* new() set or for what an earlier session left in sample_rate and channels
Rates == {8000, 16000, 44100, 48000}
RateRanges == {<<8000, 8000>>, <<8000, 48000>>, <<44100, 48000>>, <<48000, 48000>>}
ChannelCounts == {1, 2}

ConfigSpace ==
    {Config(ch, r[1], r[2], "F32") : ch \in ChannelCounts, r \in RateRanges}
    \cup {Config(1, 16000, 16000, "I32")}

ConfigLists == UNION {[1..k -> ConfigSpace] : k \in 0..MaxConfigs}

NegotiateInit ==
    /\ \E cfgs \in ConfigLists : host_inputs = <<[name |-> "mic", configs |-> cfgs]>>
    /\ default_input = 1
    /\ host_output = None
    /\ real_whisper = TRUE
    /\ sample_rate \in Rates /\ channels \in ChannelCounts
    /\ InitObjects
    /\ NoCall

NegotiateNext ==
    \/ SelectDevice(None, TRUE)
    \/ CreateChannel
    \/ \E inp \in IoOutcomes : StartCapture("ok", inp)
    \/ StopCapture

SpecNegotiate == NegotiateInit /\ [][NegotiateNext]_vars

\* the operations of AudioCapture on hosts with and without input devices, a
\* default input device and an output device: a device named "line" that
\* reports no input configuration, a loudspeaker of a sample format the
\* pipeline does not support, and one that reports no output configuration
NoInput == [name |-> "line", configs |-> <<>>]
Buzzer == [name |-> "buzzer", configs |-> <<Config(1, 16000, 16000, "I32")>>]
Mute == [name |-> "mute", configs |-> <<>>]

HostInputs == {<<Mic, LineIn>>, <<NoInput, Mic>>, <<>>}
HostOutputs == {None, Some(Speaker), Some(Buzzer), Some(Mute)}

ControlInit ==
    /\ host_inputs \in HostInputs
    /\ default_input \in 0..Len(host_inputs)
    /\ host_output \in HostOutputs
    /\ real_whisper = TRUE
    /\ sample_rate = SamplesPerSecond /\ channels = 1
    /\ InitObjects
    /\ NoCall

ControlNext ==
    \/ \E name \in DeviceNames, enum_ok \in BOOLEAN : SelectDevice(name, enum_ok)
    \/ CreateChannel
    \/ \E out \in IoOutcomes, inp \in IoOutcomes : StartCapture(out, inp)
    \/ StopCapture
    \/ \E enabled \in BOOLEAN, out \in IoOutcomes : SetPlaybackEnabled(enabled, out)
    \/ DropCapture

SpecControl == ControlInit /\ [][ControlNext]_vars

\* the downmix on chunks of up to MaxFrames frames of 1 to 3 channels
MixChannels == {1, 2, 3}
SampleValues == {-6, 0, 12}
Chunks(c) == UNION {[1..(c * k) -> SampleValues] : k \in 0..MaxFrames}

DownmixInit ==
    /\ host_inputs = <<Mic, LineIn>>
    /\ default_input = 1
    /\ host_output = Some(Speaker)
    /\ real_whisper = TRUE
    /\ sample_rate = SamplesPerSecond /\ channels = 1
    /\ InitObjects
    /\ \E c \in MixChannels : \E chunk \in Chunks(c) :
           call = [op |-> "downmix", channels |-> c, audio_chunk |-> chunk]
    /\ ret = None

DownmixNext == DownmixCall

SpecDownmix == DownmixInit /\ [][DownmixNext]_vars

\* the conversions on every sample of the integer formats, and on some floats
SampleRange(fmt) ==
    CASE fmt = "I16" -> -32768..32767
      [] fmt = "U16" -> 0..65535
      [] fmt = "U8"  -> 0..255
      [] fmt = "F32" -> {(k - 8) * 4096 : k \in 0..16}

ConvertInit ==
    /\ host_inputs = <<Mic, LineIn>>
    /\ default_input = 1
    /\ host_output = Some(Speaker)
    /\ real_whisper = TRUE
    /\ sample_rate = SamplesPerSecond /\ channels = 1
    /\ InitObjects
    /\ \E fmt \in SupportedFormats : \E s \in SampleRange(fmt) :
           call = [op |-> "convert", sample_format |-> fmt, s |-> s,
                   float_data |-> None]
    /\ ret = None

ConvertNext ==
    \/ CaptureConvert
    \/ PlaybackConvert

SpecConvert == ConvertInit /\ [][ConvertNext]_vars

\* the output callbacks on requests of 1..MaxRequest samples, with a slice
\* that holds silence or an older sample in each position, and a playback
\* buffer of 0..MaxBuffered floats
Tuples(S, lo, hi) == UNION {[1..k -> S] : k \in lo..hi}
OldSamples(fmt) == {Silence(fmt), FromFloat(fmt, One \div 2)}
BufferedFloats == {0 - One \div 2, 0, One \div 4}

OutputInit ==
    /\ host_inputs = <<Mic, LineIn>>
    /\ default_input = 1
    /\ host_output = Some(Speaker)
    /\ real_whisper = TRUE
    /\ sample_rate = SamplesPerSecond /\ channels = 1
    /\ InitObjects
    /\ \E fmt \in SupportedFormats :
       \E data \in Tuples(OldSamples(fmt), 1, MaxRequest) :
       \E buf \in Tuples(BufferedFloats, 0, MaxBuffered) :
           call = [op |-> "output_callback", sample_format |-> fmt,
                   data |-> data, buffer |-> buf]
    /\ ret = None

OutputNext == OutputCallbackCall

SpecOutput == OutputInit /\ [][OutputNext]_vars

\* capture with the loopback switched on and off, the input and the output
\* callbacks interleaved
PlaybackSizes == {8000, 48000}

PlaybackNext ==
    \/ SelectDevice(None, TRUE)
    \/ CreateChannel
    \/ StartCapture("ok", "ok")
    \/ \E d \in CallbackSizes : CaptureCallback(d)
    \/ StopCapture
    \/ \E enabled \in BOOLEAN : SetPlaybackEnabled(enabled, "ok")
    \/ \E m \in PlaybackSizes : PlaybackCallback(m)

SpecPlayback == Init /\ [][PlaybackNext]_vars

\* capture on either device into channels whose receiver the caller keeps or
\* drops
UnsentNext ==
    \/ \E name \in DeviceNames : SelectDevice(name, TRUE)
    \/ CreateChannel
    \/ StartCapture("ok", "ok")
    \/ \E d \in CallbackSizes : CaptureCallback(d)
    \/ StopCapture
    \/ DropReceiver

SpecUnsent == Init /\ [][UnsentNext]_vars

\* the capture callback, the output callback and the worker, interleaved at
\* their lock operations
LocksInit ==
    /\ host_inputs = <<Mic, LineIn>>
    /\ default_input = 1
    /\ host_output = Some(Speaker)
    /\ real_whisper = TRUE
    /\ sample_rate = SamplesPerSecond /\ channels = 1
    /\ InitObjects
    /\ NoCall

LocksNext ==
    \/ CaptureLocking
    \/ OutputLocking
    \/ WorkerLocking

SpecLocks == LocksInit /\ [][LocksNext]_vars

\* ================================================================ properties
\* ------------------------------------------------------------- negotiation
\* the last start_capture got as far as reading the device's configurations
Negotiated == last_start.result \in {"err_no_config", "err_incompatible",
                                      "err_format", "err_build", "ok"}

NegConfigs == host_inputs[last_start.device].configs

Distance(c, rate) ==
    MinOf(Abs(c.min_sample_rate - rate), Abs(c.max_sample_rate - rate))

ExactSet(cfgs, rate, ch) ==
    {i \in DOMAIN cfgs : /\ cfgs[i].channels = ch
                         /\ cfgs[i].min_sample_rate <= rate
                         /\ rate <= cfgs[i].max_sample_rate}

ChannelSet(cfgs, ch) == {i \in DOMAIN cfgs : cfgs[i].channels = ch}

ExampleConfigs == <<Config(2, 8000, 48000, "F32"), Config(1, 44100, 48000, "F32")>>

\* C8: start_capture selects the configuration by a four-step precedence,
\* each step used only if the previous one found nothing: (1) the first
\* configuration with the desired channel count whose rate range contains the
\* desired rate; (2) among those with the desired channel count, one that
\* minimises min(|min - desired|, |max - desired|); (3) among those with one
\* channel, one with the highest maximum rate; (4) the first configuration.
\* For [{ch 2, 8000-48000}, {ch 1, 44100-48000}] and desired {ch 1, 16000} the
\* second configuration is selected, with rate 44100.
C8_Precedence ==
    (Negotiated /\ NegConfigs # <<>>) =>
        LET cfgs  == NegConfigs
            rate  == last_start.want_rate
            ch    == last_start.want_channels
            sel   == last_start.sel
            exact == ExactSet(cfgs, rate, ch)
            same  == ChannelSet(cfgs, ch)
            mono  == ChannelSet(cfgs, 1)
        IN  /\ exact # {} =>
                sel \in exact /\ \A j \in exact : sel <= j
            /\ (exact = {} /\ same # {}) =>
                /\ sel \in same
                /\ \A j \in same : Distance(cfgs[sel], rate) <= Distance(cfgs[j], rate)
            /\ (same = {} /\ mono # {}) =>
                /\ sel \in mono
                /\ \A j \in mono : cfgs[sel].max_sample_rate >= cfgs[j].max_sample_rate
            /\ (same = {} /\ mono = {}) => sel = 1
            /\ (cfgs = ExampleConfigs /\ rate = 16000 /\ ch = 1) =>
                sel = 2 /\ last_start.rate = 44100

\* the example of C8 negotiated, and a stream running with the outcome
C8_Witness ==
    /\ last_start.result = "ok"
    /\ NegConfigs = ExampleConfigs
    /\ last_start.want_rate = 16000 /\ last_start.want_channels = 1
    /\ last_start.sel = 2
    /\ stream # None /\ stream[1].sample_rate = 44100 /\ stream[1].channels = 1

\* C9: the negotiated rate is the desired rate when it lies in the selected
\* configuration's range, else the minimum when the desired rate is below the
\* range and the maximum when it is above; so it always lies in the range of
\* the selected configuration, whichever step selected it, and it is the rate
\* the AudioCapture and the stream it starts carry.
C9_RateClamped ==
    (Negotiated /\ last_start.sel # 0) =>
        LET c    == NegConfigs[last_start.sel]
            want == last_start.want_rate
            got  == last_start.rate
        IN  /\ (c.min_sample_rate <= want /\ want <= c.max_sample_rate) => got = want
            /\ want < c.min_sample_rate => got = c.min_sample_rate
            /\ want > c.max_sample_rate => got = c.max_sample_rate
            /\ c.min_sample_rate <= got /\ got <= c.max_sample_rate
            /\ (last_start.result = "ok" /\ stream # None) =>
                   stream[1].sample_rate = got

\* a stream opened at the maximum of a range lying below the desired rate
C9_Witness ==
    /\ last_start.result = "ok"
    /\ last_start.sel # 0
    /\ last_start.want_rate > NegConfigs[last_start.sel].max_sample_rate
    /\ last_start.rate = NegConfigs[last_start.sel].max_sample_rate
    /\ sample_rate = last_start.rate

\* C10: negotiation fails with an error when the device reports no input
\* configuration, and for every non-empty list it selects a configuration of
\* the list: the ladder never ends with nothing selected.
C10_SelectsOrFails ==
    Negotiated =>
        /\ NegConfigs = <<>> =>
               last_start.result = "err_no_config" /\ last_start.sel = 0
        /\ NegConfigs # <<>> =>
               /\ last_start.sel \in DOMAIN NegConfigs
               /\ last_start.result \notin {"err_no_config", "err_incompatible"}

\* a device without configurations was asked, and one whose only configuration
\* has neither the desired channel count nor one channel
C10_Witness ==
    /\ Negotiated
    /\ \/ NegConfigs = <<>> /\ last_start.result = "err_no_config"
       \/ /\ NegConfigs # <<>>
          /\ ChannelSet(NegConfigs, last_start.want_channels) = {}
          /\ ChannelSet(NegConfigs, 1) = {}
          /\ last_start.result = "ok"

\* ----------------------------------------------------------------- chunking
\* a stream negotiated at 16000 Hz / 1 channel is running, and it was started
\* on an empty accumulation buffer
MonoSession ==
    /\ stream # None
    /\ last_start.result = "ok"
    /\ stream[1].sample_rate = SamplesPerSecond
    /\ stream[1].channels = 1
    /\ last_start.at_buffered = 0

SessionSamples == delivered - last_start.at_delivered

SessionChunks == SubSeq(emitted, last_start.at_emitted + 1, Len(emitted))

\* C1: at a negotiated 16000 Hz / 1 channel, after callbacks of any sizes that
\* together delivered n samples into an initially empty accumulation buffer,
\* exactly floor(n / 16000) chunks have been emitted, each of exactly 16000
\* samples, and exactly n mod 16000 samples remain buffered: after every
\* callback the accumulation buffer holds less than one chunk.
C1_WholeSeconds ==
    MonoSession =>
        /\ Len(SessionChunks) = SessionSamples \div SamplesPerSecond
        /\ \A i \in DOMAIN SessionChunks : RLen(SessionChunks[i]) = SamplesPerSecond
        /\ RLen(buffer) = SessionSamples % SamplesPerSecond
        /\ RLen(buffer) < SamplesPerSecond

\* one callback of two seconds of audio: one chunk emitted, a whole second
\* left in the accumulation buffer
C1_SecondLeftBehind ==
    /\ MonoSession
    /\ ncallbacks = 1
    /\ SessionSamples = 2 * SamplesPerSecond
    /\ Len(SessionChunks) = 1
    /\ RLen(buffer) = SamplesPerSecond

\* ------------------------------------------------------------- the channel
\* the position in the captured stream of a chunk's first sample
ChunkStart(chunk) == chunk[1].from

\* C2: for any interleaving of capture callbacks and worker polls within one
\* session, the worker receives the chunks in exactly the order the capture
\* callback sent them, each exactly once: what was received, followed by what
\* is still queued, is what was sent, and what was sent is in stream order.
C2_ChannelFifo ==
    \A c \in DOMAIN chans :
        /\ chans[c].recvd \o chans[c].queue = chans[c].sent
        /\ \A i, j \in DOMAIN chans[c].sent :
               i < j => ChunkStart(chans[c].sent[i]) < ChunkStart(chans[c].sent[j])
        /\ \A t \in DOMAIN threads :
               (threads[t].rx = c /\ chans[c].recvd # <<>> /\ threads[t].audio_buffer # <<>>)
                   => RunEnd(Last(threads[t].audio_buffer))
                          = RunEnd(Last(Last(chans[c].recvd)))

\* a worker has received two chunks while a third waits in the queue
C2_Witness ==
    \E t \in DOMAIN threads :
        /\ threads[t].pc # "done"
        /\ Len(chans[threads[t].rx].recvd) = 2
        /\ Len(chans[threads[t].rx].queue) = 1

\* --------------------------------------------------------------- the worker
\* C3: on every chunk receipt, after appending the chunk, the worker starts an
\* inference pass if and only if the buffer holds at least 2.0 s (32000
\* samples), or at least 1.0 s (16000 samples) with at least 0.5 s elapsed
\* since the previous pass or the worker's start.
C3_TriggerIff ==
    \A t \in DOMAIN threads :
        threads[t].recv_log # None =>
            LET r == threads[t].recv_log[1]
            IN  r.pass <=> \/ r.len >= 32000
                           \/ r.len >= 16000 /\ r.elapsed >= 500

\* a worker whose engine state could not be created holds two seconds of
\* audio after a receipt and has started no pass
C3_NoPassWithoutState ==
    \E t \in DOMAIN threads :
        /\ ~threads[t].reusable_state
        /\ threads[t].recv_log # None
        /\ threads[t].recv_log[1].len >= 32000
        /\ ~threads[t].recv_log[1].pass
        /\ threads[t].pc = "loop"

\* the pass a worker has just finished, if it has received nothing since
PassLog(t) == threads[t].pass_log[1]

Kept(input) == IF RLen(input) < RetainSize THEN RLen(input) ELSE RetainSize

\* C4: after every successful inference pass the rolling buffer holds exactly
\* the last 8000 samples of the buffer given to the engine, in the same order
\* (the whole buffer if it held fewer); everything older is discarded.
C4_RetainsTail ==
    \A t \in DOMAIN threads :
        (threads[t].pass_log # None /\ PassLog(t).ok) =>
            LET input == PassLog(t).input
                kept  == threads[t].audio_buffer
            IN  /\ RLen(kept) = Kept(input)
                /\ Extend(Take(input, RLen(input) - Kept(input)), kept) = input

\* a successful pass on two seconds of audio has left the last half second
C4_Witness ==
    \E t \in DOMAIN threads :
        /\ threads[t].pass_log # None /\ PassLog(t).ok
        /\ RLen(PassLog(t).input) = 2 * SamplesPerSecond
        /\ threads[t].audio_buffer = <<Run(3 * RetainSize, RetainSize, 1)>>

\* C5: after every failed inference pass the rolling buffer is empty: no
\* sample of the failed window is kept for the next pass.
C5_EmptyAfterFailure ==
    \A t \in DOMAIN threads :
        (threads[t].pass_log # None /\ ~PassLog(t).ok) =>
            threads[t].audio_buffer = <<>>

\* a pass on a buffer that began with a retained half second has failed
C5_Witness ==
    \E t \in DOMAIN threads :
        /\ threads[t].pass_log # None /\ ~PassLog(t).ok
        /\ RLen(PassLog(t).input) = RetainSize + SamplesPerSecond
        /\ threads[t].audio_buffer = <<>>
        /\ threads[t].pc = "loop"

\* C6: for any sequence of load_model, start_processing and stop calls, stop
\* returns only when no worker thread the Transcriber started is still
\* running, and a second stop with no start in between returns at once and
\* changes nothing.
C6_StopJoinsAll ==
    (last_call.op = "stop" /\ caller = 0) =>
        /\ \A t \in DOMAIN threads : threads[t].pc = "done"
        /\ should_stop /\ processing_thread = 0

\* stop has returned after two starts: the second worker was joined, the
\* first is still in its loop
C6_FirstWorkerRuns ==
    /\ last_call.op = "stop" /\ caller = 0
    /\ Len(threads) = 2
    /\ threads[1].pc \notin {"init", "done"}
    /\ threads[2].pc = "done"

\* C7 as stated: once every sender is dropped the worker exits on its own
\* within one poll timeout, so no worker is alive on a channel that has been
\* disconnected for longer.
C7_WithinOnePoll ==
    \A t \in DOMAIN threads :
        (threads[t].pc # "done" /\ Disconnected(threads[t].rx))
            => chans[threads[t].rx].age <= PollTimeout

\* a poll of thread t that finds its channel empty and every sender dropped
PollsDisconnected(t) ==
    /\ threads[t].pc = "recv"
    /\ chans[threads[t].rx].queue = <<>>
    /\ Disconnected(threads[t].rx)

\* C7: once every sender is dropped, the worker first receives the chunks
\* still queued and finishes the passes they trigger; the first poll that
\* finds the channel empty returns at once, without waiting for the timeout,
\* and the worker leaves its loop and returns, without stop being called. So
\* no time passes while a worker polls a disconnected channel: the time since
\* the disconnect and the time waited in the poll are never both positive.
C7_ExitsAtEmptyPoll ==
    /\ [](\A t \in DOMAIN threads :
             (threads[t].pc = "recv" /\ Disconnected(threads[t].rx))
                 => \/ chans[threads[t].rx].age = 0
                    \/ threads[t].waited = 0)
    /\ [][\A t \in DOMAIN threads :
             (PollsDisconnected(t) /\ threads'[t] # threads[t])
                 => /\ threads'[t].pc = "done"
                    /\ should_stop' = should_stop]_vars

\* a worker has received the queued chunks after the capture was dropped and
\* has returned, no stop having been called
C7_Witness ==
    \E t \in DOMAIN threads :
        /\ threads[t].pc = "done"
        /\ Disconnected(threads[t].rx)
        /\ chans[threads[t].rx].queue = <<>>
        /\ chans[threads[t].rx].recvd # <<>>
        /\ ~should_stop /\ last_call.op # "stop"

\* -------------------------------------------------------------- the downmix
\* C11: for every channel count c >= 1 and every chunk of c*k interleaved
\* samples the downmix gives exactly k mono samples, the i-th being the
\* arithmetic mean of the input samples i*c .. i*c + c - 1, in order; for
\* c = 1 the chunk is passed through unchanged.
C11_DownmixMeans ==
    (call.op = "downmix" /\ ret # None) =>
        LET c     == call.channels
            input == call.audio_chunk
            mono  == ret[1]
        IN  /\ Len(mono) * c = Len(input)
            /\ \A i \in 0..(Len(mono) - 1) :
                   mono[i + 1] * c
                       = SumSeq([j \in 1..c |-> input[i * c + j]])
            /\ c = 1 => mono = input

\* two frames of three channels mixed down to two different means
C11_Witness ==
    /\ call.op = "downmix" /\ ret # None
    /\ call.channels = 3
    /\ Len(call.audio_chunk) = 6
    /\ Len(ret[1]) = 2
    /\ ret[1][1] # ret[1][2]

\* ---------------------------------------------------------- the conversions
\* C12: for each hardware representation, converting a device sample s to
\* float with the capture formula and back with the playback formula of the
\* same representation recovers s within one unit of the representation
\* (F32: exactly), for every s of the type's range.
C12_RoundTrip ==
    (call.op = "convert" /\ ret # None) =>
        /\ ret[1] - call.s \in {-1, 0, 1}
        /\ call.sample_format = "F32" => ret[1] = call.s
        /\ call.float_data[1] >= -One /\ call.float_data[1] <= One

\* the largest sample of an unsigned format comes back one unit lower
C12_Witness ==
    /\ call.op = "convert" /\ ret # None
    /\ call.sample_format = "U16"
    /\ call.s = 65535
    /\ call.float_data[1] = One - 1
    /\ ret[1] = 65534

\* ------------------------------------------------------ one second per chunk
\* a stream is running that the last start_capture started
Streaming == stream # None /\ last_start.result = "ok"

\* C13: the capture callback cuts a chunk when the accumulation buffer holds
\* sample_rate x channels samples, sample_rate being the rate negotiated for
\* the running stream, so every chunk emitted holds one second of audio: as
\* many frames as the negotiated rate, also when that rate is not 16000 Hz.
C13_OneSecondChunks ==
    Streaming =>
        \A i \in DOMAIN SessionChunks :
            RLen(SessionChunks[i]) = stream[1].sample_rate * stream[1].channels

\* a stereo stream negotiated at 44100 Hz has emitted a chunk of 16000 frames
C13_ShortChunk ==
    /\ Streaming
    /\ stream[1].sample_rate = 44100 /\ stream[1].channels = 2
    /\ sample_rate = 44100 /\ channels = 2
    /\ SessionChunks # <<>>
    /\ RLen(SessionChunks[1]) = 2 * SamplesPerSecond

\* ------------------------------------------------------ loading and starting
\* C14: start_processing called while no model is loaded returns the
\* model-not-loaded error, spawns no worker thread and leaves the stop flag
\* and the stored thread handle as they were.
C14_NoModelNoWorker ==
    (last_call.op = "start_processing" /\ ~last_call.before.model) =>
        /\ ~last_call.ok
        /\ Len(threads) = last_call.before.threads
        /\ (caller = 0 /\ processing_thread = last_call.before.processing_thread)
        /\ should_stop = last_call.before.should_stop

\* the simulated build: start_processing right after new, no load_model ever
\* called, has returned Ok and a worker runs
C14_WorkerWithoutModel ==
    /\ ~real_whisper
    /\ last_call.op = "start_processing" /\ ~last_call.loaded
    /\ last_call.ok
    /\ Len(threads) = 1 /\ processing_thread = 1
    /\ threads[1].pc = "recv"

\* C15: load_model returns an error when the model path does not resolve to
\* an existing, usable model file, and then the Transcriber holds no loaded
\* model, so that a following start_processing fails.
C15_FailedLoadNoModel ==
    (last_call.op = "load_model" /\ last_call.outcome # "ok") =>
        /\ ~last_call.ok
        /\ ~ctx
        /\ ~Spawns

\* with real_whisper: load_model has failed on a Transcriber that still holds
\* the context of an earlier load, and start_processing would spawn
C15_EarlierModelKept ==
    /\ real_whisper
    /\ last_call.op = "load_model" /\ last_call.outcome = "not_found"
    /\ ~last_call.ok
    /\ ctx /\ Spawns

\* ------------------------------------------------- the capture operations
\* C16: from any state of the pipeline stop_capture leaves it holding
\* neither an input stream nor an output stream (so does the teardown of the
\* AudioCapture), and it is idempotent: called again, or called when capture
\* was never started, it changes nothing.
C16_StopCaptureStops ==
    [][/\ (StopCapture \/ DropCapture) => (stream' = None /\ output_stream' = None)
       /\ (StopCapture /\ stream = None /\ output_stream = None)
              => CaptureState' = CaptureState]_vars

\* a capture started with the loopback on has been stopped: both streams are
\* gone, the rest of the AudioCapture is as start_capture left it
C16_Witness ==
    /\ capture_alive
    /\ last_start.result = "ok"
    /\ playback_enabled /\ output_device = Some(Speaker)
    /\ stream = None /\ output_stream = None
    /\ tx # 0 /\ device # 0

\* C17: if start_capture returns an error, capture is not started and nothing
\* that call acquired remains held: afterwards no input stream is running and
\* no loopback output stream the call started is left running.
C17_FailedStartHoldsNothing ==
    [][\A out \in IoOutcomes, inp \in IoOutcomes :
          (StartCapture(out, inp) /\ last_start'.result # "ok")
              => /\ stream' = None
                 /\ output_stream' # None => output_stream # None]_vars

\* start_capture has failed for want of a selected device and a loopback
\* output stream is running
C17_OutputLeftRunning ==
    /\ last_start.result = "err_no_device"
    /\ device = 0 /\ stream = None /\ tx # 0
    /\ playback_enabled /\ output_stream # None

\* the input devices named name: the devices that report an input
\* configuration
InputsNamed(name) ==
    {i \in DOMAIN host_inputs :
        host_inputs[i].configs # <<>> /\ name = Some(host_inputs[i].name)}

\* C18: select_device(Some(name)) selects the input device whose name is
\* exactly name if there is one; when none matches, or the name is None, it
\* selects the host's default input device; it returns an error only when
\* that default does not exist or the enumeration fails, and then the device
\* selected before is left as it was.
C18_SelectDevice ==
    [][\A name \in DeviceNames, enum_ok \in BOOLEAN :
          SelectDevice(name, enum_ok) =>
              IF ~enum_ok \/ (InputsNamed(name) = {} /\ default_input = 0)
              THEN select_result' = "err" /\ device' = device
              ELSE /\ select_result' = "ok"
                   /\ IF InputsNamed(name) # {}
                      THEN device' \in InputsNamed(name)
                      ELSE device' = default_input]_vars

\* the name asked for belongs to a device without input configurations, and
\* the default input device was selected instead
C18_Witness ==
    /\ host_inputs = <<NoInput, Mic>>
    /\ default_input = 2
    /\ select_result = "ok"
    /\ device = 2

\* ------------------------------------------------------ the output callback
\* C19: an output callback asked for m samples copies the first m samples of
\* the playback buffer to the output in order and removes them when the
\* buffer holds at least m; otherwise every position it did not fill from
\* the buffer holds the silence value of the format, and no position keeps
\* what it held before.
C19_OutputFilled ==
    (call.op = "output_callback" /\ ret # None) =>
        LET fmt == call.sample_format
            m   == Len(call.data)
            n   == Len(call.buffer)
            out == ret[1]
        IN  /\ Len(out.data) = m
            /\ \A i \in 1..m :
                  out.data[i] = IF i <= n THEN FromFloat(fmt, call.buffer[i])
                                ELSE Silence(fmt)
            /\ out.buffer = SubSeq(call.buffer, MinOf(m, n) + 1, n)

\* a callback asked for more than the non-empty buffer held and returned
\* with an older sample in a position it did not fill
C19_StaleOutput ==
    /\ call.op = "output_callback" /\ ret # None
    /\ call.buffer # <<>>
    /\ \E i \in 1..Len(call.data) :
          /\ i > Len(call.buffer)
          /\ ret[1].data[i] = call.data[i]
          /\ ret[1].data[i] # Silence(call.sample_format)

\* ------------------------------------------------------------ the loopback
\* the output device set_playback_enabled would use has a configuration the
\* output stream can be built with
UsableOutput ==
    LET dev == IF output_device # None THEN output_device ELSE host_output
    IN  /\ dev # None
        /\ dev[1].configs # <<>>
        /\ LET sel == SelectOutputConfig(dev[1].configs, sample_rate, channels)
           IN  sel # 0 /\ dev[1].configs[sel].sample_format \in SupportedFormats

C21_StopSignal ==
    [][/\ (StartProcessing /\ Len(threads') > Len(threads)) => ~should_stop'
       /\ Stop => should_stop'
       /\ (should_stop /\ ~should_stop')
              => /\ Len(threads') = Len(threads) + 1
                 /\ Last(threads').pc = "init"
                 /\ last_call'.op = "start_processing" /\ last_call'.ok]_vars

\* a start_processing that followed a stop() has reset the StopSignal
C21_Witness ==
    /\ last_call.op = "start_processing" /\ last_call.ok
    /\ last_call.before.should_stop
    /\ ~should_stop
    /\ threads # <<>>

\* C22: once stop() has set the StopSignal the worker finishes the poll or
\* the pass it is in, receiving at most one more chunk and running at most
\* one more pass, and leaves at its next test of the flag, whatever is still
\* queued in the channel; stop() then returns, provided the pass returns.
C22_StopEndsWorker ==
    /\ [][\A t \in DOMAIN threads :
             (should_stop /\ should_stop') =>
                 LET pc  == threads[t].pc
                     pc2 == threads'[t].pc
                 IN  /\ pc = "init"  => pc2 \in {"init", "loop"}
                     /\ pc = "loop"  => pc2 \in {"loop", "done"}
                     /\ pc = "recv"  => pc2 \in {"recv", "infer", "loop", "done"}
                     /\ pc = "infer" => pc2 \in {"infer", "loop"}
                     /\ pc = "done"  => pc2 = "done"]_vars
    /\ (caller # 0) ~> (caller = 0)

\* stop() has returned, its worker has left, and chunks are still queued in
\* the worker's channel
C22_Witness ==
    /\ last_call.op = "stop" /\ caller = 0 /\ should_stop
    /\ \E t \in DOMAIN threads :
          /\ threads[t].pc = "done"
          /\ threads[t].recv_log # None
          /\ chans[threads[t].rx].queue # <<>>

\* ------------------------------------------------- the callback and the worker
\* C23: the capture callback never waits for the worker: while the stream
\* runs a callback can be taken whatever the worker is doing, and a callback
\* that completes a chunk returns with the chunk at the back of the channel
\* when the receiver is alive and with the channel as it was when the
\* receiver is gone; nothing bounds the number of chunks queued.
C23_CallbackNeverWaits ==
    /\ []((stream # None /\ ncallbacks < MaxCallbacks)
              => ENABLED CaptureCallback(SamplesPerSecond))
    /\ [][(CaptureCallback(SamplesPerSecond) /\ Len(emitted') > Len(emitted)) =>
             LET c == stream[1].sender
             IN  IF RxAlive(c)
                 THEN /\ Len(chans'[c].queue) = Len(chans[c].queue) + 1
                      /\ RLen(Last(chans'[c].queue)) = SamplesPerSecond
                      /\ Front(chans'[c].queue) = chans[c].queue
                 ELSE chans' = chans]_vars

\* every chunk of the session is queued behind a worker that is inside a
\* pass
C23_Witness ==
    \E t \in DOMAIN threads :
        /\ threads[t].pc = "infer"
        /\ ncallbacks = MaxCallbacks
        /\ Len(chans[threads[t].rx].queue) = MaxCallbacks - 1

\* ------------------------------------------------- the size of the window
\* C24: the RollingInferenceBuffer never holds more than 2.5 s of audio
\* (40000 samples), and holds less than 2.0 s (32000 samples) whenever the
\* worker is not inside a pass, whether the engine state was created at
\* worker start or not.
C24_WindowBounded ==
    \A t \in DOMAIN threads :
        /\ 2 * RLen(threads[t].audio_buffer) <= 5 * SamplesPerSecond
        /\ threads[t].pc # "infer"
               => RLen(threads[t].audio_buffer) < 2 * SamplesPerSecond

\* a worker whose engine state was not created holds more than 2.5 s
C24_WindowOverflow ==
    \E t \in DOMAIN threads :
        /\ ~threads[t].reusable_state
        /\ threads[t].pc = "loop"
        /\ 2 * RLen(threads[t].audio_buffer) > 5 * SamplesPerSecond

\* ------------------------------------------------------------ conservation
\* the vectors of a sequence of vectors, one after the other
RECURSIVE Concat(_)
Concat(vs) == IF vs = <<>> THEN <<>> ELSE Extend(Head(vs), Concat(Tail(vs)))

\* the samples 0 .. n-1 of the captured stream
Captured(n) == IF n = 0 THEN <<>> ELSE <<Run(0, n, 1)>>

\* the chunks cut so far followed by the accumulation buffer are the samples
\* the callbacks delivered, in order
Conserved == Extend(Concat(emitted), buffer) = Captured(delivered)

\* the chunks of the running stream end between two of its frames
FrameAligned ==
    Streaming =>
        \A i \in DOMAIN SessionChunks :
            LET end == RunEnd(Last(SessionChunks[i]))
            IN  end >= last_start.at_delivered
                    => (end - last_start.at_delivered) % stream[1].channels = 0

\* C25: chunking conserves the sample stream: after any sequence of capture
\* callbacks the samples removed for the emitted chunks, in emission order,
\* followed by the accumulation buffer, are exactly the samples delivered, in
\* order, and every chunk boundary falls between two frames of the stream.
C25_ChunkingConserves == Conserved /\ FrameAligned

\* a two-channel stream started on an accumulation buffer that held an odd
\* number of samples has cut a chunk
C25_SplitFrame ==
    /\ Streaming
    /\ stream[1].channels = 2
    /\ last_start.at_buffered % 2 = 1
    /\ SessionChunks # <<>>
    /\ RunEnd(Last(Last(emitted))) > last_start.at_delivered

\* ------------------------------------------------------------------ locking
\* C26: no context holds more than one of the three locks, none waits for a
\* lock, a channel or a thread while it holds one, and a context that waits
\* for a lock waits for one that is free or whose holder is not waiting: the
\* capture callback, the output callback and the worker cannot deadlock.
C26_OneLockNoWait ==
    \A c \in Contexts :
        /\ Cardinality(HeldBy(c)) <= 1
        /\ at[c] \in Waits => HeldBy(c) = {}
        /\ (WaitsFor(c) # Free /\ lock_owner[WaitsFor(c)] # Free)
               => at[lock_owner[WaitsFor(c)]] \notin Waits

\* all three locks are held, each by another context: the capture callback
\* is about to send, the output callback copies, the worker sends a segment
C26_Witness ==
    /\ lock_owner["buffer"] = "capture" /\ at["capture"] = "send"
    /\ lock_owner["playback_buffer"] = "output"
    /\ lock_owner["ctx"] = "worker" /\ at["worker"] = "send_text"

\* ------------------------------------------------------ the playback buffer
\* C27: under any interleaving of capture callbacks and output callbacks the
\* capture side only appends to the PlaybackBuffer and the playback side only
\* removes from its front: the samples copied to the output device, followed
\* by those still in the buffer, are the samples capture appended, in order,
\* so none is played twice, skipped or reordered.
C27_PlaybackFifo ==
    /\ [](Extend(playback_log.played, playback_buffer) = playback_log.appended)
    /\ [][/\ \A d \in CallbackSizes :
                CaptureCallback(d)
                    => Take(playback_buffer', RLen(playback_buffer)) = playback_buffer
          /\ \A m \in PlaybackSizes :
                PlaybackCallback(m)
                    => playback_buffer' =
                          Drop(playback_buffer,
                               RLen(playback_buffer) - RLen(playback_buffer'))]_vars

\* part of what capture appended has been played and the rest is in the
\* buffer
C27_Witness ==
    /\ playback_log.played # <<>>
    /\ playback_buffer # <<>>
    /\ RLen(playback_log.appended) > SamplesPerSecond

\* C28: a capture callback appends its samples to the PlaybackBuffer if and
\* only if loopback playback is enabled when it runs: none is appended after
\* set_playback_enabled(false) during streaming, and the callbacks that
\* follow set_playback_enabled(true) during streaming append.
C28_AppendsIffEnabled ==
    [][\A d \in CallbackSizes :
          CaptureCallback(d)
              => RLen(playback_buffer') =
                     RLen(playback_buffer) + (IF playback_enabled THEN d ELSE 0)]_vars

\* loopback was enabled after the running stream was started without it, the
\* output stream runs, and nothing was ever appended though the stream has
\* delivered samples
C28_SwitchIgnored ==
    /\ stream # None /\ ~stream[1].playback_enabled
    /\ playback_enabled /\ output_stream # None
    /\ delivered > last_start.at_delivered
    /\ playback_log.appended = <<>>

\* ------------------------------------------------------ the receiver is gone
\* C29: when the receiver of the chunk channel has been dropped, a capture
\* callback that completes a chunk still removes the chunk's samples from the
\* accumulation buffer and discards the chunk; the input stream keeps running
\* and the accumulation buffer does not grow because of the failed send.
C29_UnsentChunkDropped ==
    [][\A d \in CallbackSizes :
          (/\ CaptureCallback(d)
           /\ ~RxAlive(stream[1].sender)
           /\ RLen(buffer) + d >= SamplesPerSecond * stream[1].channels)
              => /\ RLen(buffer') =
                        RLen(buffer) + d - SamplesPerSecond * stream[1].channels
                 /\ Len(emitted') = Len(emitted) + 1
                 /\ chans' = chans
                 /\ stream' = stream]_vars

\* the running stream has cut more chunks than its channel, whose receiver is
\* gone, was ever sent
C29_Witness ==
    /\ Streaming
    /\ ~RxAlive(stream[1].sender)
    /\ Len(SessionChunks) > Len(chans[stream[1].sender].sent)
    /\ RLen(buffer) < SamplesPerSecond * stream[1].channels

\* -------------------------------------------------- the text receiver is gone
\* C30: when sending a segment on the text channel fails during a pass, no
\* further segment of that pass is sent, and the pass still completes its
\* bookkeeping: the RollingInferenceBuffer is cut to its trailing 0.5 s and
\* the last-inference marker is reset.
C30_UnsentPassCompletes ==
    [][\A t \in DOMAIN threads, segs \in TextResults, k \in 0..MaxSegments :
          InferOk(t, segs, k) =>
              LET th   == threads[t]
                  th2  == threads'[t]
                  msgs == SegmentsToSend(segs)
                  n    == Len(th2.text.out) - Len(th.text.out)
                  len  == RLen(th.audio_buffer)
              IN  /\ n \in 0..Len(msgs)
                  /\ th2.text.out = th.text.out \o SubSeq(msgs, 1, n)
                  /\ n < Len(msgs) => (~th2.text.alive /\ (th.text.alive => n = k))
                  /\ th2.audio_buffer =
                         Drop(th.audio_buffer, len - MinOf(len, RetainSize))
                  /\ RLen(th2.audio_buffer) =
                         (IF len > RetainSize THEN RetainSize ELSE 0)
                  /\ th2.elapsed = 0
                  /\ th2.pc = "loop"]_vars

\* a pass has sent its first segment, lost the receiver before the second,
\* and left the trailing half second with the timer reset
C30_Witness ==
    \E t \in DOMAIN threads :
        /\ threads[t].pass_log # None /\ PassLog(t).ok
        /\ PassLog(t).segments = 3 /\ PassLog(t).sent = 1
        /\ ~threads[t].text.alive
        /\ threads[t].pc = "loop" /\ threads[t].elapsed = 0
        /\ RLen(threads[t].audio_buffer) = RetainSize

\* the last pass of thread t met a send that failed
SendFailed(t) ==
    /\ threads[t].pass_log # None
    /\ PassLog(t).ok
    /\ PassLog(t).sent < PassLog(t).segments

\* C31: when the receiver of the text channel has been dropped the worker
\* takes the failed send for a termination signal: its loop ends after the
\* failed send, without stop() being called.
C31_EndsAfterFailedSend ==
    [][\A t \in DOMAIN threads :
          (SendFailed(t) /\ threads[t].pc = "loop")
              => threads'[t].pc \in {"loop", "done"}]_vars

\* after a send that failed, with no stop() called, the worker is inside its
\* next poll
C31_PollsOn ==
    \E t \in DOMAIN threads :
        /\ SendFailed(t)
        /\ ~threads[t].text.alive
        /\ ~should_stop
        /\ threads[t].pc = "recv"

\* ---------------------------------------------------------- what is sent
\* C32: every string a pass sends on the text channel is a non-empty segment
\* trimmed of surrounding whitespace; within a pass the segments are sent in
\* the order of their indices, none that is not blank being passed over; and
\* what earlier passes sent stays in front of what a later pass sends.
C32_TrimmedInOrder ==
    [][\A t \in DOMAIN threads, segs \in TextResults, k \in 0..MaxSegments :
          InferOk(t, segs, k) =>
              LET old == threads[t].text.out
                  new == threads'[t].text.out
                  n   == Len(new) - Len(old)
                  msg(j) == new[Len(old) + j]
              IN  /\ n >= 0
                  /\ SubSeq(new, 1, Len(old)) = old
                  /\ \A j \in 1..n :
                        /\ msg(j) # <<>>
                        /\ ~IsSpace(Head(msg(j))) /\ ~IsSpace(Last(msg(j)))
                  /\ \E f \in [1..n -> DOMAIN segs] :
                        /\ \A j \in 1..n : Trim(segs[f[j]]) = msg(j)
                        /\ \A i, j \in 1..n : i < j => f[i] < f[j]
                        /\ \A i \in DOMAIN segs :
                              (n > 0 /\ i < f[n] /\ Trim(segs[i]) # <<>>)
                                  => \E j \in 1..n : f[j] = i]_vars

\* two passes have each sent their three segments, behind the initial message
C32_Witness ==
    \E t \in DOMAIN threads :
        /\ threads[t].text.alive
        /\ threads[t].text.out =
               <<InitialMessage, <<"a">>, <<"b">>, <<"c">>, <<"a">>, <<"b">>, <<"c">> >>

\* ------------------------------------------------------- after a failed pass
\* C33: an inference failure never terminates the worker: after a failed pass
\* the worker is running with its last-inference marker reset, and unless
\* stop() was called it goes into its next poll, to receive later chunks and
\* run later passes.
C33_FailureNotFatal ==
    [][\A t \in DOMAIN threads :
          /\ InferErr(t) => /\ threads'[t].pc = "loop"
                            /\ threads'[t].elapsed = 0
                            /\ ~threads'[t].ctx_locked
          /\ (/\ threads[t].pass_log # None /\ ~PassLog(t).ok
              /\ threads[t].pc = "loop" /\ ~should_stop /\ ~should_stop')
                 => threads'[t].pc \in {"loop", "recv"}]_vars

\* the pass on the first chunk failed, and the worker is inside a pass on the
\* second chunk alone
C33_Witness ==
    \E t \in DOMAIN threads :
        /\ threads[t].pc = "infer"
        /\ threads[t].audio_buffer = <<Run(SamplesPerSecond, SamplesPerSecond, 1)>>

\* ------------------------------------------------------ a session's buffers
\* C35: a capture session starts from clean buffers: when start_capture
\* starts a stream on a pipeline whose earlier session, if any, was ended with
\* stop_capture, nothing of what that session left in the accumulation buffer
\* or in the playback buffer is carried over, so the first chunk of the new
\* session holds only samples captured after the call.
C35_CleanStart ==
    [][\A out \in IoOutcomes, inp \in IoOutcomes :
          (stream = None /\ StartCapture(out, inp) /\ Streaming')
              => (buffer' = <<>> /\ playback_buffer' = <<>>)]_vars

\* the first chunk of a session begins with a sample that was delivered
\* before its start_capture
C35_StaleFirstChunk ==
    /\ Streaming
    /\ last_start.at_buffered > 0
    /\ SessionChunks # <<>>
    /\ ChunkStart(SessionChunks[1]) < last_start.at_delivered
    /\ RunEnd(Last(SessionChunks[1])) > last_start.at_delivered

\* ------------------------------------------------------- received and unseen
\* the worker t has an engine state and holds at least one second of audio
\* whose last chunk no pass has seen
Unseen(t) ==
    /\ t \in DOMAIN threads
    /\ threads[t].pc \in {"loop", "recv"}
    /\ threads[t].reusable_state
    /\ threads[t].recv_log # None
    /\ threads[t].pass_log = None
    /\ RLen(threads[t].audio_buffer) >= SamplesPerSecond

\* C36: while the worker keeps running, every chunk it received is eventually
\* covered by a pass: a worker that holds at least 1.0 s of audio no pass has
\* seen goes on to run a pass (once 0.5 s have passed since the last one),
\* also when no further chunk arrives, unless it ends first.
C36_EventuallyCovered ==
    \A t \in 1..MaxThreads :
        Unseen(t) ~> (t \in DOMAIN threads /\ threads[t].pc \in {"infer", "done"})

\* half a second after it started, a worker with one second of unseen audio
\* and nothing queued is at the end of one more poll timeout
C36_IdleWithUnseen ==
    \E t \in DOMAIN threads :
        /\ Unseen(t)
        /\ threads[t].pc = "recv"
        /\ chans[threads[t].rx].queue = <<>>
        /\ threads[t].waited >= PollTimeout
        /\ threads[t].elapsed >= MinInterval
        /\ Trigger(RLen(threads[t].audio_buffer), threads[t].elapsed)
        /\ ~should_stop
        /\ stream = None

\* ------------------------------------------------ negotiation and its past
\* what start_capture negotiates on the configurations cfgs of a pipeline
\* that new() has just made: for 16000 Hz and 1 channel
FreshNegotiation(cfgs) ==
    LET sel == SelectConfig(cfgs, SamplesPerSecond, 1)
    IN  [rate     |-> ChosenRate(cfgs[sel], SamplesPerSecond),
         channels |-> cfgs[sel].channels]

\* C37: the configuration start_capture negotiates depends only on the
\* configurations of the selected device and the fixed target of 16000 Hz and
\* 1 channel: a start_capture that starts a stream after earlier sessions
\* negotiates the rate and the channel count it would negotiate on a freshly
\* constructed pipeline with that device.
C37_NegotiationFresh ==
    last_start.result = "ok" =>
        LET fresh == FreshNegotiation(host_inputs[last_start.device].configs)
        IN  /\ last_start.rate = fresh.rate
            /\ last_start.channels = fresh.channels

\* after a session on the two-channel line input at 44100 Hz, a session on
\* the microphone, which supports 16000 Hz, runs at 44100 Hz
C37_RateInherited ==
    /\ Streaming
    /\ host_inputs[last_start.device] = Mic
    /\ last_start.want_rate = 44100 /\ last_start.want_channels = 2
    /\ stream[1].sample_rate = 44100 /\ stream[1].channels = 1
    /\ FreshNegotiation(Mic.configs) = [rate |-> SamplesPerSecond, channels |-> 1]

\* ------------------------------------------------------- the model is moved
\* C38: in the real-engine build start_processing consumes the loaded model:
\* a start_processing that succeeds leaves the Transcriber without a model, a
\* start_processing on a Transcriber without a model fails with the
\* model-not-loaded error and spawns nothing, and only a load_model that
\* succeeds gives it a model again, whether or not stop() was called in
\* between.
C38_ModelConsumed ==
    [][real_whisper =>
          /\ (StartProcessing /\ ctx) => (last_call'.ok /\ ~ctx')
          /\ (StartProcessing /\ ~ctx)
                 => (~last_call'.ok /\ ~ctx' /\ threads' = threads
                       /\ processing_thread' = processing_thread)
          /\ (~ctx /\ ctx') => (last_call'.op = "load_model" /\ last_call'.ok)]_vars

\* a worker was started and stopped with stop(), and a further
\* start_processing has failed although a model had been loaded
C38_Witness ==
    /\ real_whisper
    /\ last_call.op = "start_processing"
    /\ ~last_call.ok
    /\ last_call.loaded
    /\ ~ctx
    /\ should_stop
    /\ caller = 0
    /\ Len(threads) = 1
    /\ threads[1].pc = "done"

====
